---- MODULE Spec2Model ----
(***************************************************************************)
(* A model of Django's migration machinery as annotated in this            *)
(* repository: Migration.apply / Migration.unapply                         *)
(* (db/migrations/migration.py) and MigrationLoader.build_graph            *)
(* (db/migrations/loader.py).                                              *)
(*                                                                         *)
(* Several specifications share the module.  SpecEngine runs one           *)
(* migration through apply / unapply against a schema editor and a         *)
(* storage, SpecMutate calls mutate_state, SpecLoader runs build_graph     *)
(* over a set of authored migrations and a ledger, and SpecLoaded,         *)
(* SpecPrefix, SpecRecorder, SpecGraph and SpecMigrate cover the loader's  *)
(* queries, the recorder, the graph's plans and the migrate command.       *)
(* Each leaves the variables of the others untouched.                      *)
(***************************************************************************)
EXTENDS Integers, Sequences, FiniteSets, TLC

(***************************************************************************)
(* Bounds of the model.                                                    *)
(***************************************************************************)
\* Longest operation list of a migration.
MaxOps == 2
\* Number of apply / unapply calls the caller makes in one run.
MaxCalls == 2

VARIABLES
    \* ---- migration engine ------------------------------------------------
    migration,    \* the Migration instance: [atomic, operations]
    editor,       \* the schema editor: [atomic_migration, collect_sql, collected_sql]
    heap,         \* ProjectState objects: heap[r] is the content of object r
    callerState,  \* the reference the caller holds (its "state" variable)
    frame,        \* local variables of the running apply / unapply call
    pc,           \* position in the running call, "idle" between calls
    db,           \* physical effects that are durable in the storage
    tx,           \* stack of open transactions, each the effects it holds
    calls,        \* every physical call issued, in order, with what it saw
    events,       \* what the adapter was asked to do, in order
    history,      \* the calls the caller made, with argument and outcome
    \* ---- loader ----------------------------------------------------------
    disk,         \* the migration files: key -> [dependencies, run_before, replaces]
    diskOrder,    \* the order in which disk_migrations is iterated
    ledger,       \* the rows of the django_migrations table, as keys
    options,      \* loader flags and the apps with / without a migrations package
    loader,       \* the MigrationLoader: applied view, graph, replacements
    lpc,          \* position in build_graph
    viewAt,       \* per squash, the applied view as it was when it was processed
    \* ---- queries, recorder, migrate command ------------------------------
    lookup,       \* the last query made of the loader or the graph, with its answer
    table,        \* whether the django_migrations table exists
    tableRows,    \* the rows of the django_migrations table, in insertion order
    rcalls,       \* the calls made of the MigrationRecorder, with their outcomes
    cmd           \* the running migrate command: position, options, targets, plan

vars == <<migration, editor, heap, callerState, frame, pc, db, tx, calls,
          events, history, disk, diskOrder, ledger, options, loader, lpc,
          viewAt, lookup, table, tableRows, rcalls, cmd>>

engineVars == <<migration, editor, heap, callerState, frame, pc, db, tx,
                calls, events, history>>

loaderVars == <<disk, diskOrder, ledger, options, loader, lpc, viewAt>>

recorderVars == <<table, tableRows, rcalls>>

serviceVars == <<lookup, recorderVars, cmd>>

(***************************************************************************)
(* Python truth values.  Operation.atomic is True, False or None and the   *)
(* expression of apply / unapply uses Python's value-returning or / and.   *)
(***************************************************************************)
PyVals == {"True", "False", "None"}
PyBool(b) == IF b THEN "True" ELSE "False"
Truthy(v) == v = "True"
PyOr(a, b) == IF Truthy(a) THEN a ELSE b
PyAnd(a, b) == IF Truthy(a) THEN b ELSE a

(***************************************************************************)
(* Operations and migrations.                                              *)
(***************************************************************************)
\* The attributes of an Operation the engine reads.  changes_state tells
\* whether state_forwards alters the ProjectState (RunSQL / RunPython
\* without state_operations do not).
OperationAttrs ==
    [reversible : BOOLEAN, atomic : PyVals, changes_state : BOOLEAN,
     reduces_to_sql : BOOLEAN]

\* operation.state_forwards(app_label, state): the content of the state
\* after operation number k of the migration has been applied to content s.
\* A ProjectState is modelled by the sequence of operations that shaped it.
state_forwards(op, k, s) == IF op.changes_state THEN Append(s, k) ELSE s

\* ProjectState.clone(): a new object with the same content.
Clone(h, r) == Append(h, h[r])


(***************************************************************************)
(* The storage adapter: transactions and physical effects.  A physical     *)
(* effect written while a transaction is open belongs to the innermost     *)
(* open transaction; written bare it is durable at once.                   *)
(***************************************************************************)
\* The open transactions after effect e has been written.
EmitTx(t, e) == IF t = <<>> THEN t ELSE [t EXCEPT ![Len(t)] = Append(@, e)]
\* The durable effects after effect e has been written.
EmitDb(t, d, e) == IF t = <<>> THEN Append(d, e) ELSE d
\* transaction.atomic().__enter__: open a scoped transaction.
BeginTx(t) == Append(t, <<>>)
\* transaction.atomic().__exit__ without an exception: the innermost
\* transaction's effects pass to the enclosing one, or become durable.
CommitTx(t) ==
    IF Len(t) = 1 THEN <<>>
    ELSE Append(SubSeq(t, 1, Len(t) - 2), t[Len(t) - 1] \o t[Len(t)])
CommitDb(t, d) == IF Len(t) = 1 THEN d \o t[1] ELSE d
\* transaction.atomic().__exit__ with an exception: the innermost
\* transaction's effects are discarded.
RollbackTx(t) == SubSeq(t, 1, Len(t) - 1)

\* Leaving a with atomic(...) block: commit, or roll back when the block
\* raised.  The result is the open transactions and the durable effects.
ScopedExit(t, d, exc) ==
    IF exc THEN [tx |-> RollbackTx(t), db |-> d]
    ELSE [tx |-> CommitTx(t), db |-> CommitDb(t, d)]

\* connection.schema_editor(atomic=migration.atomic).__enter__: the editor
\* runs one transaction for the whole migration iff atomic_migration.
EditorEnterTx(ed) == IF ed.atomic_migration THEN <<<<>>>> ELSE <<>>
\* schema_editor.__exit__: the whole-migration transaction, when there is
\* one, commits on a normal exit and rolls back on an exception.
EditorExitDb(ed, t, d, ok) ==
    IF ed.atomic_migration /\ ok /\ t # <<>> THEN d \o t[1] ELSE d

(***************************************************************************)
(* Pieces of Migration.apply and Migration.unapply.                        *)
(***************************************************************************)
\* apply: atomic_operation = operation.atomic or
\*            (self.atomic and operation.atomic is not False)
AtomicOperationIgnoringOperation(op, m) == m.atomic
AtomicOperationApply(op, m) ==
    Truthy(PyOr(op.atomic,
                PyAnd(PyBool(m.atomic), PyBool(op.atomic # "False"))))

\* unapply: the same expression, written a second time in the source.
AtomicOperationUnapply(op, m) ==
    Truthy(PyOr(op.atomic,
                PyAnd(PyBool(m.atomic), PyBool(op.atomic # "False"))))

\* apply: if not schema_editor.atomic_migration and atomic_operation
ForceTransactionNever(ed, atomic_operation) == FALSE
ForceTransactionAlways(ed, atomic_operation) == ~ed.atomic_migration
ForceTransactionNonAtomicMigrationOnly(ed, atomic_operation) ==
    ~ed.atomic_migration /\ atomic_operation /\ ~migration.atomic
ForceTransactionApply(ed, atomic_operation) ==
    ~ed.atomic_migration /\ atomic_operation

\* An unapply that would scope every atomic step, whatever the editor runs.
ForceTransactionUnapplyIgnoringEditor(ed, atomic_operation) ==
    atomic_operation

\* unapply: if not schema_editor.atomic_migration and atomic_operation
ForceTransactionUnapply(ed, atomic_operation) ==
    ~ed.atomic_migration /\ atomic_operation

\* unapply, Phase 1: if not operation.reversible: raise IrreversibleError
IsIrreversibleFirstOnly(op, k) == k = 1 /\ ~op.reversible
IsIrreversible(op, k) == ~op.reversible

\* apply: return project_state
ApplyResult(f) == f.project_state

\* unapply: return project_state
UnapplyResultNewState(f) == f.new_state
UnapplyResult(f) == f.project_state


\* The comment lines both loops add to collected_sql for one operation.
SqlHeader == <<"--", "-- describe", "--">>
SqlCannot == "-- THIS OPERATION CANNOT BE WRITTEN AS SQL"
SqlNoOp == "-- (no-op)"

NoFrame ==
    [fn |-> "none", project_state |-> 0, i |-> 0, old_state |-> 0,
     new_state |-> 0, to_run |-> <<>>, atomic_operation |-> FALSE,
     scoped |-> FALSE, exc |-> FALSE, collected_sql_before |-> 0,
     argValue |-> <<>>, dbBefore |-> <<>>]

\* The record of a finished call, as the caller sees it.
Outcome(f, h, status, error, ret, d) ==
    [fn |-> f.fn, arg |-> f.project_state, argValue |-> f.argValue,
     status |-> status, error |-> error, ret |-> ret,
     retValue |-> IF ret = 0 THEN <<>> ELSE h[ret],
     inputAfter |-> h[f.project_state], op |-> f.i,
     dbBefore |-> f.dbBefore, dbAfter |-> d]


(***************************************************************************)
(* Migration.apply, one step per part of the loop body.                    *)
(***************************************************************************)
\* The caller makes its next call: an exception of apply or unapply is not
\* caught by the callers, so a run ends at the first one.
CallerRuns ==
    /\ Len(history) < MaxCalls
    /\ \A n \in 1..Len(history) : history[n].status = "returned"

\* The caller enters a schema editor and calls
\* migration.apply(state, schema_editor, collect_sql).
CallApply ==
    /\ pc = "idle"
    /\ CallerRuns
    /\ frame' = [NoFrame EXCEPT !.fn = "apply",
                                !.project_state = callerState,
                                !.i = 1,
                                !.argValue = heap[callerState],
                                !.dbBefore = db]
    /\ tx' = EditorEnterTx(editor)
    /\ events' = Append(events, "editor_enter")
    /\ editor' = [editor EXCEPT !.collected_sql = <<>>]
    /\ pc' = "apply_loop"
    /\ UNCHANGED <<loaderVars, serviceVars>>
    /\ UNCHANGED <<migration, heap, callerState, db, calls, history>>

\* The call ends: the schema editor is left (a normal exit commits its
\* whole-migration transaction, an exception rolls it back) and the caller
\* keeps the returned state, or keeps its own on an exception.
FinishWith(status, error, ret, h, t, d, ev) ==
    /\ db' = EditorExitDb(editor, t, d, status = "returned")
    /\ history' = Append(history, Outcome(frame, h, status, error, ret, db'))
    /\ events' = events \o ev \o
                   <<IF status = "returned" THEN "editor_exit"
                     ELSE "editor_exit_error">>
    /\ tx' = <<>>
    /\ callerState' = IF status = "returned" THEN ret ELSE callerState
    /\ frame' = NoFrame
    /\ pc' = "idle"

Finish(status, error, ret, h) ==
    FinishWith(status, error, ret, h, tx, db, <<>>)

\* A loop body that would run state_forwards of an operation it leaves
\* out of the collected SQL.
ApplyStateStepForwardingSkipped ==
    /\ pc = "apply_loop"
    /\ frame.i <= Len(migration.operations)
    /\ LET op == migration.operations[frame.i]
           sql1 == IF editor.collect_sql
                   THEN editor.collected_sql \o SqlHeader
                   ELSE editor.collected_sql
       IN  IF editor.collect_sql /\ ~op.reduces_to_sql
           THEN \* state_forwards, then continue
                /\ editor' = [editor EXCEPT
                                !.collected_sql = Append(sql1, SqlCannot)]
                /\ heap' = [heap EXCEPT ![frame.project_state] =
                                          state_forwards(op, frame.i, @)]
                /\ frame' = [frame EXCEPT !.i = @ + 1]
                /\ UNCHANGED <<pc, db, tx, callerState, history, events>>
           ELSE \/ \* state_forwards mutates project_state in place
                   /\ editor' = [editor EXCEPT !.collected_sql = sql1]
                   /\ heap' = [Clone(heap, frame.project_state) EXCEPT
                                 ![frame.project_state] =
                                     state_forwards(op, frame.i, @)]
                   /\ frame' = [frame EXCEPT
                                  !.old_state = Len(heap) + 1,
                                  !.collected_sql_before = Len(sql1)]
                   /\ pc' = "apply_enter"
                   /\ UNCHANGED <<db, tx, callerState, history, events>>
                \/ \* state_forwards raises
                   /\ editor' = [editor EXCEPT !.collected_sql = sql1]
                   /\ heap' = Clone(heap, frame.project_state)
                   /\ Finish("raised", "state_forwards", 0, heap')
    /\ UNCHANGED <<loaderVars, serviceVars>>
    /\ UNCHANGED <<migration, calls>>

\* A loop body that would take old_state after state_forwards has run.
ApplyStateStepSnapshotAfter ==
    /\ pc = "apply_loop"
    /\ frame.i <= Len(migration.operations)
    /\ LET op == migration.operations[frame.i]
           sql1 == IF editor.collect_sql
                   THEN editor.collected_sql \o SqlHeader
                   ELSE editor.collected_sql
       IN  IF editor.collect_sql /\ ~op.reduces_to_sql
           THEN \* continue
                /\ editor' = [editor EXCEPT
                                !.collected_sql = Append(sql1, SqlCannot)]
                /\ frame' = [frame EXCEPT !.i = @ + 1]
                /\ UNCHANGED <<heap, pc, db, tx, callerState, history,
                               events>>
           ELSE \/ \* state_forwards mutates project_state in place
                   /\ editor' = [editor EXCEPT !.collected_sql = sql1]
                   /\ heap' = Clone([heap EXCEPT
                                 ![frame.project_state] =
                                     state_forwards(op, frame.i, @)],
                                 frame.project_state)
                   /\ frame' = [frame EXCEPT
                                  !.old_state = Len(heap) + 1,
                                  !.collected_sql_before = Len(sql1)]
                   /\ pc' = "apply_enter"
                   /\ UNCHANGED <<db, tx, callerState, history, events>>
                \/ \* state_forwards raises
                   /\ editor' = [editor EXCEPT !.collected_sql = sql1]
                   /\ heap' = Clone(heap, frame.project_state)
                   /\ Finish("raised", "state_forwards", 0, heap')
    /\ UNCHANGED <<loaderVars, serviceVars>>
    /\ UNCHANGED <<migration, calls>>

\* for operation in self.operations: the collect_sql comments, the
\* "cannot be written as SQL" continue, old_state = project_state.clone()
\* and operation.state_forwards(self.app_label, project_state).
ApplyStateStep ==
    /\ pc = "apply_loop"
    /\ frame.i <= Len(migration.operations)
    /\ LET op == migration.operations[frame.i]
           sql1 == IF editor.collect_sql
                   THEN editor.collected_sql \o SqlHeader
                   ELSE editor.collected_sql
       IN  IF editor.collect_sql /\ ~op.reduces_to_sql
           THEN \* continue
                /\ editor' = [editor EXCEPT
                                !.collected_sql = Append(sql1, SqlCannot)]
                /\ frame' = [frame EXCEPT !.i = @ + 1]
                /\ UNCHANGED <<heap, pc, db, tx, callerState, history,
                               events>>
           ELSE \/ \* state_forwards mutates project_state in place
                   /\ editor' = [editor EXCEPT !.collected_sql = sql1]
                   /\ heap' = [Clone(heap, frame.project_state) EXCEPT
                                 ![frame.project_state] =
                                     state_forwards(op, frame.i, @)]
                   /\ frame' = [frame EXCEPT
                                  !.old_state = Len(heap) + 1,
                                  !.collected_sql_before = Len(sql1)]
                   /\ pc' = "apply_enter"
                   /\ UNCHANGED <<db, tx, callerState, history, events>>
                \/ \* state_forwards raises
                   /\ editor' = [editor EXCEPT !.collected_sql = sql1]
                   /\ heap' = Clone(heap, frame.project_state)
                   /\ Finish("raised", "state_forwards", 0, heap')
    /\ UNCHANGED <<loaderVars, serviceVars>>
    /\ UNCHANGED <<migration, calls>>

\* atomic_operation = ...; if not schema_editor.atomic_migration and
\* atomic_operation: with atomic(...): -- the scoped transaction is begun.
ApplyEnter ==
    /\ pc = "apply_enter"
    /\ LET op == migration.operations[frame.i]
           atomic_operation == AtomicOperationApply(op, migration)
           force == ForceTransactionApply(editor, atomic_operation)
       IN  /\ frame' = [frame EXCEPT !.atomic_operation = atomic_operation,
                                     !.scoped = force]
           /\ tx' = IF force THEN BeginTx(tx) ELSE tx
           /\ events' = IF force THEN Append(events, "begin") ELSE events
    /\ pc' = "apply_call"
    /\ UNCHANGED <<loaderVars, serviceVars>>
    /\ UNCHANGED <<migration, editor, heap, callerState, db, calls, history>>

\* One physical call as the adapter sees it.
PhysicalCall(fn, k, from, to, ok) ==
    [call |-> Len(history) + 1, fn |-> fn, op |-> k,
     from_state |-> heap[from], to_state |-> heap[to],
     atomic_operation |-> frame.atomic_operation,
     scoped |-> frame.scoped, open |-> Len(tx), ok |-> ok,
     at |-> Len(events) + 1]

\* The physical effect of a call: complete, or partial when it raised.
Effect(fn, k, ok) ==
    [fn |-> fn, op |-> k, part |-> IF ok THEN "full" ELSE "partial"]

\* operation.database_forwards(self.app_label, schema_editor, old_state,
\* project_state): it succeeds or raises; collecting SQL, the editor only
\* records the statements (none for an operation that emits nothing).
ApplyCall ==
    /\ pc = "apply_call"
    /\ \E ok \in BOOLEAN :
         /\ calls' = Append(calls, PhysicalCall("apply", frame.i,
                                frame.old_state, frame.project_state, ok))
         /\ frame' = [frame EXCEPT !.exc = ~ok]
         /\ IF editor.collect_sql
            THEN /\ \E n \in 0..1 :
                      editor' = [editor EXCEPT !.collected_sql =
                                   @ \o [x \in 1..n |-> "sql"]]
                 /\ UNCHANGED <<db, tx>>
            ELSE /\ tx' = EmitTx(tx, Effect("apply", frame.i, ok))
                 /\ db' = EmitDb(tx, db, Effect("apply", frame.i, ok))
                 /\ UNCHANGED editor
    /\ events' = Append(events, "call")
    /\ pc' = "apply_exit"
    /\ UNCHANGED <<loaderVars, serviceVars>>
    /\ UNCHANGED <<migration, heap, callerState, history>>

\* A loop that would swallow the exception of a physical call and go on.
ApplyExitSwallowing ==
    /\ pc = "apply_exit"
    /\ LET after == IF frame.scoped THEN ScopedExit(tx, db, frame.exc)
                    ELSE [tx |-> tx, db |-> db]
       IN  /\ tx' = after.tx
           /\ db' = after.db
           /\ events' = IF frame.scoped
                        THEN Append(events, IF frame.exc THEN "rollback"
                                            ELSE "commit")
                        ELSE events
           /\ frame' = [frame EXCEPT !.i = @ + 1, !.scoped = FALSE,
                                     !.exc = FALSE]
           /\ pc' = "apply_loop"
           /\ UNCHANGED <<editor, callerState, history>>
    /\ UNCHANGED <<loaderVars, serviceVars>>
    /\ UNCHANGED <<migration, heap, calls>>

\* A loop that would put the state back when a physical call raised.
ApplyExitRestoring ==
    /\ pc = "apply_exit"
    /\ LET after == IF frame.scoped THEN ScopedExit(tx, db, frame.exc)
                    ELSE [tx |-> tx, db |-> db]
       IN  IF frame.exc
           THEN /\ heap' = [heap EXCEPT ![frame.project_state] =
                                         heap[frame.old_state]]
                /\ FinishWith("raised", "database", 0, heap',
                              after.tx, after.db,
                              IF frame.scoped THEN <<"rollback">> ELSE <<>>)
                /\ UNCHANGED editor
           ELSE /\ tx' = after.tx
                /\ db' = after.db
                /\ events' = IF frame.scoped THEN Append(events, "commit")
                             ELSE events
                /\ editor' = IF /\ editor.collect_sql
                                /\ frame.collected_sql_before
                                     = Len(editor.collected_sql)
                             THEN [editor EXCEPT !.collected_sql =
                                     Append(@, SqlNoOp)]
                             ELSE editor
                /\ frame' = [frame EXCEPT !.i = @ + 1, !.scoped = FALSE]
                /\ pc' = "apply_loop"
                /\ UNCHANGED <<heap, callerState, history>>
    /\ UNCHANGED <<loaderVars, serviceVars>>
    /\ UNCHANGED <<migration, calls>>

\* The end of the with block (commit, or rollback and re-raise), the
\* "(no-op)" comment, and the next iteration.
ApplyExit ==
    /\ pc = "apply_exit"
    /\ LET after == IF frame.scoped THEN ScopedExit(tx, db, frame.exc)
                    ELSE [tx |-> tx, db |-> db]
       IN  IF frame.exc
           THEN /\ FinishWith("raised", "database", 0, heap,
                              after.tx, after.db,
                              IF frame.scoped THEN <<"rollback">> ELSE <<>>)
                /\ UNCHANGED editor
           ELSE /\ tx' = after.tx
                /\ db' = after.db
                /\ events' = IF frame.scoped THEN Append(events, "commit")
                             ELSE events
                /\ editor' = IF /\ editor.collect_sql
                                /\ frame.collected_sql_before
                                     = Len(editor.collected_sql)
                             THEN [editor EXCEPT !.collected_sql =
                                     Append(@, SqlNoOp)]
                             ELSE editor
                /\ frame' = [frame EXCEPT !.i = @ + 1, !.scoped = FALSE]
                /\ pc' = "apply_loop"
                /\ UNCHANGED <<callerState, history>>
    /\ UNCHANGED <<loaderVars, serviceVars>>
    /\ UNCHANGED <<migration, heap, calls>>

\* return project_state
ApplyReturn ==
    /\ pc = "apply_loop"
    /\ frame.i > Len(migration.operations)
    /\ Finish("returned", "", ApplyResult(frame), heap)
    /\ UNCHANGED <<loaderVars, serviceVars>>
    /\ UNCHANGED <<migration, editor, heap, calls>>


(***************************************************************************)
(* Migration.unapply: Phase 1 replays the operations forward and records   *)
(* the intermediate states, Phase 2 runs the physical calls in reverse.    *)
(***************************************************************************)
\* The caller enters a schema editor and calls
\* migration.unapply(state, schema_editor, collect_sql):
\* to_run = []; new_state = project_state.
CallUnapply ==
    /\ pc = "idle"
    /\ CallerRuns
    /\ frame' = [NoFrame EXCEPT !.fn = "unapply",
                                !.project_state = callerState,
                                !.new_state = callerState,
                                !.i = 1,
                                !.argValue = heap[callerState],
                                !.dbBefore = db]
    /\ tx' = EditorEnterTx(editor)
    /\ events' = Append(events, "editor_enter")
    /\ editor' = [editor EXCEPT !.collected_sql = <<>>]
    /\ pc' = "unapply_phase1"
    /\ UNCHANGED <<loaderVars, serviceVars>>
    /\ UNCHANGED <<migration, heap, callerState, db, calls, history>>

\* A Phase 1 that would replay every operation on one and the same state.
UnapplyPhase1StepSharedState ==
    /\ pc = "unapply_phase1"
    /\ frame.i <= Len(migration.operations)
    /\ LET op == migration.operations[frame.i]
           h1 == heap
           new_state == frame.new_state
           h2 == Clone(h1, new_state)
           old_state == Len(h2)
       IN  IF IsIrreversible(op, frame.i)
           THEN /\ Finish("raised", "IrreversibleError", 0, heap)
                /\ UNCHANGED heap
           ELSE \/ /\ heap' = [h2 EXCEPT ![new_state] =
                                 state_forwards(op, frame.i, @)]
                   /\ frame' = [frame EXCEPT
                        !.new_state = new_state,
                        !.old_state = old_state,
                        !.to_run = <<[operation |-> frame.i,
                                      to_state |-> old_state,
                                      from_state |-> new_state]>> \o @,
                        !.i = @ + 1]
                   /\ UNCHANGED <<pc, db, tx, callerState, history,
                                  events>>
                \/ \* state_forwards raises
                   /\ heap' = h2
                   /\ Finish("raised", "state_forwards", 0, heap')
    /\ UNCHANGED <<loaderVars, serviceVars>>
    /\ UNCHANGED <<migration, editor, calls>>

\* Phase 1, one operation: the reversible check, new_state =
\* new_state.clone(), old_state = new_state.clone(), state_forwards on
\* new_state, to_run.insert(0, (operation, old_state, new_state)).
UnapplyPhase1Step ==
    /\ pc = "unapply_phase1"
    /\ frame.i <= Len(migration.operations)
    /\ LET op == migration.operations[frame.i]
           h1 == Clone(heap, frame.new_state)
           new_state == Len(h1)
           h2 == Clone(h1, new_state)
           old_state == Len(h2)
       IN  IF IsIrreversible(op, frame.i)
           THEN /\ Finish("raised", "IrreversibleError", 0, heap)
                /\ UNCHANGED heap
           ELSE \/ /\ heap' = [h2 EXCEPT ![new_state] =
                                 state_forwards(op, frame.i, @)]
                   /\ frame' = [frame EXCEPT
                        !.new_state = new_state,
                        !.old_state = old_state,
                        !.to_run = <<[operation |-> frame.i,
                                      to_state |-> old_state,
                                      from_state |-> new_state]>> \o @,
                        !.i = @ + 1]
                   /\ UNCHANGED <<pc, db, tx, callerState, history,
                                  events>>
                \/ \* state_forwards raises
                   /\ heap' = h2
                   /\ Finish("raised", "state_forwards", 0, heap')
    /\ UNCHANGED <<loaderVars, serviceVars>>
    /\ UNCHANGED <<migration, editor, calls>>

\* Phase 1 is over: the loop over to_run starts.
UnapplyPhase1Done ==
    /\ pc = "unapply_phase1"
    /\ frame.i > Len(migration.operations)
    /\ frame' = [frame EXCEPT !.i = 1]
    /\ pc' = "unapply_phase2"
    /\ UNCHANGED <<loaderVars, serviceVars>>
    /\ UNCHANGED <<migration, editor, heap, callerState, db, tx, calls,
                   events, history>>

\* Phase 2, for operation, to_state, from_state in to_run: the collect_sql
\* comments and continue, atomic_operation, and the scoped transaction.
UnapplyEnter ==
    /\ pc = "unapply_phase2"
    /\ frame.i <= Len(frame.to_run)
    /\ LET k == frame.to_run[frame.i].operation
           op == migration.operations[k]
           sql1 == IF editor.collect_sql
                   THEN editor.collected_sql \o SqlHeader
                   ELSE editor.collected_sql
           atomic_operation == AtomicOperationUnapply(op, migration)
           force == ForceTransactionUnapply(editor, atomic_operation)
       IN  IF editor.collect_sql /\ ~op.reduces_to_sql
           THEN \* continue
                /\ editor' = [editor EXCEPT
                                !.collected_sql = Append(sql1, SqlCannot)]
                /\ frame' = [frame EXCEPT !.i = @ + 1]
                /\ UNCHANGED <<pc, tx, events>>
           ELSE /\ editor' = [editor EXCEPT !.collected_sql = sql1]
                /\ frame' = [frame EXCEPT
                               !.atomic_operation = atomic_operation,
                               !.scoped = force,
                               !.collected_sql_before = Len(sql1)]
                /\ tx' = IF force THEN BeginTx(tx) ELSE tx
                /\ events' = IF force THEN Append(events, "begin")
                             ELSE events
                /\ pc' = "unapply_call"
    /\ UNCHANGED <<loaderVars, serviceVars>>
    /\ UNCHANGED <<migration, heap, callerState, db, calls, history>>

\* operation.database_backwards(self.app_label, schema_editor, from_state,
\* to_state)
UnapplyCall ==
    /\ pc = "unapply_call"
    /\ LET r == frame.to_run[frame.i]
       IN  \E ok \in BOOLEAN :
             /\ calls' = Append(calls, PhysicalCall("unapply", r.operation,
                                    r.from_state, r.to_state, ok))
             /\ frame' = [frame EXCEPT !.exc = ~ok]
             /\ IF editor.collect_sql
                THEN /\ \E n \in 0..1 :
                          editor' = [editor EXCEPT !.collected_sql =
                                       @ \o [x \in 1..n |-> "sql"]]
                     /\ UNCHANGED <<db, tx>>
                ELSE /\ tx' = EmitTx(tx, Effect("unapply", r.operation, ok))
                     /\ db' = EmitDb(tx, db,
                                     Effect("unapply", r.operation, ok))
                     /\ UNCHANGED editor
    /\ events' = Append(events, "call")
    /\ pc' = "unapply_exit"
    /\ UNCHANGED <<loaderVars, serviceVars>>
    /\ UNCHANGED <<migration, heap, callerState, history>>

\* The end of the with block, the "(no-op)" comment, the next iteration.
UnapplyExit ==
    /\ pc = "unapply_exit"
    /\ LET after == IF frame.scoped THEN ScopedExit(tx, db, frame.exc)
                    ELSE [tx |-> tx, db |-> db]
       IN  IF frame.exc
           THEN /\ FinishWith("raised", "database", 0, heap,
                              after.tx, after.db,
                              IF frame.scoped THEN <<"rollback">> ELSE <<>>)
                /\ UNCHANGED editor
           ELSE /\ tx' = after.tx
                /\ db' = after.db
                /\ events' = IF frame.scoped THEN Append(events, "commit")
                             ELSE events
                /\ editor' = IF /\ editor.collect_sql
                                /\ frame.collected_sql_before
                                     = Len(editor.collected_sql)
                             THEN [editor EXCEPT !.collected_sql =
                                     Append(@, SqlNoOp)]
                             ELSE editor
                /\ frame' = [frame EXCEPT !.i = @ + 1, !.scoped = FALSE]
                /\ pc' = "unapply_phase2"
                /\ UNCHANGED <<callerState, history>>
    /\ UNCHANGED <<loaderVars, serviceVars>>
    /\ UNCHANGED <<migration, heap, calls>>

\* return project_state
UnapplyReturn ==
    /\ pc = "unapply_phase2"
    /\ frame.i > Len(frame.to_run)
    /\ Finish("returned", "", UnapplyResult(frame), heap)
    /\ UNCHANGED <<loaderVars, serviceVars>>
    /\ UNCHANGED <<migration, editor, heap, calls>>


(***************************************************************************)
(* Migration keys.  A key is <<app_label, name>>; names sort as strings.   *)
(***************************************************************************)
AppOrder == <<"a", "b">>
NameOrder == <<"0001", "0002", "0003", "0004">>
Apps == {"a", "b"}
A1 == <<"a", "0001">>
A2 == <<"a", "0002">>
A3 == <<"a", "0003">>
B1 == <<"b", "0001">>
KeyUniverse == {A1, A2, A3, B1}

Rank(order, x) == CHOOSE i \in 1..Len(order) : order[i] = x

\* Tuple comparison of two keys, as sorted() compares them.
KeyLess(k, l) ==
    \/ Rank(AppOrder, k[1]) < Rank(AppOrder, l[1])
    \/ /\ k[1] = l[1]
       /\ Rank(NameOrder, k[2]) < Rank(NameOrder, l[2])

RECURSIVE SortKeys(_)
SortKeys(S) ==
    IF S = {} THEN <<>>
    ELSE LET m == CHOOSE x \in S : \A y \in S : x = y \/ KeyLess(x, y)
         IN  <<m>> \o SortKeys(S \ {m})

Range(q) == {q[i] : i \in 1..Len(q)}

(***************************************************************************)
(* The migration graph.  A graph is [nodes, edges]; an edge <<p, c>> says  *)
(* that parent p must be applied before child c.  An edge may name a key   *)
(* that is no node until validate_consistency has run.                     *)
(***************************************************************************)
EmptyGraph == [nodes |-> {}, edges |-> {}]

\* graph.add_node(key, migration)
add_node(g, key) == [g EXCEPT !.nodes = @ \cup {key}]

\* graph.add_dependency(migration, child, parent, skip_validation=True)
add_dependency(g, child, parent) ==
    [g EXCEPT !.edges = @ \cup {<<parent, child>>}]

\* graph.remove_replaced_nodes(replacement, replaced): the dependents of
\* the replaced keys depend on the replacement instead, the replacement
\* takes over the replaced keys' parents from outside the replaced set, and
\* the replaced keys go with their edges.
remove_replaced_nodes(g, replacement, replaced) ==
    LET R == Range(replaced)
        kept == {e \in g.edges : e[1] \notin R /\ e[2] \notin R}
        children == {<<replacement, e[2]>> :
                        e \in {x \in g.edges : x[1] \in R /\ x[2] \notin R}}
        parents == {<<e[1], replacement>> :
                        e \in {x \in g.edges : x[2] \in R /\ x[1] \notin R}}
    IN  [nodes |-> g.nodes \ R, edges |-> kept \cup children \cup parents]

\* graph.remove_replacement_node(replacement, replaced): the replacement
\* goes; its dependents from outside the replaced set depend on the last
\* replaced key instead.
remove_replacement_node(g, replacement, replaced) ==
    LET R == Range(replaced)
        last == replaced[Len(replaced)]
        kept == {e \in g.edges : e[1] # replacement /\ e[2] # replacement}
        children == {<<last, e[2]>> :
                        e \in {x \in g.edges :
                                 x[1] = replacement /\ x[2] \notin R
                                 /\ x[2] # replacement}}
    IN  [nodes |-> g.nodes \ {replacement}, edges |-> kept \cup children]

\* The keys edges name that are no node: what validate_consistency rejects.
MissingNodes(g) ==
    ({e[1] : e \in g.edges} \cup {e[2] : e \in g.edges}) \ g.nodes

\* The keys reachable from the set S along the edges E, with S.
RECURSIVE Descendants(_, _)
Descendants(E, S) ==
    LET T == S \cup {e[2] : e \in {x \in E : x[1] \in S}}
    IN  IF T = S THEN S ELSE Descendants(E, T)

\* What ensure_not_cyclic rejects.
HasCycle(g) == \E e \in g.edges : e[1] \in Descendants(g.edges, {e[2]})

\* graph.root_nodes(app): the app's nodes without a parent in the app.
root_nodes(g, app) ==
    SortKeys({n \in g.nodes :
                /\ n[1] = app
                /\ ~\E e \in g.edges : e[2] = n /\ e[1][1] = app})

\* graph.leaf_nodes(app): the app's nodes without a child in the app.
leaf_nodes(g, app) ==
    SortKeys({n \in g.nodes :
                /\ n[1] = app
                /\ ~\E e \in g.edges : e[1] = n /\ e[2][1] = app})

(***************************************************************************)
(* MigrationLoader.                                                        *)
(***************************************************************************)
Sentinels == {"__first__", "__latest__"}

\* MigrationRecorder.applied_migrations(), as build_graph reads it.
applied_migrations_of(rows) == rows

\* check_key(key, current_app): the key to depend on, None, or ValueError.
check_key(key, current_app, g, opts) ==
    IF key[2] \notin Sentinels \/ key \in g.nodes
    THEN [kind |-> "key", key |-> key]
    ELSE IF key[1] = current_app
    THEN [kind |-> "none", key |-> key]
    ELSE IF key[1] \in opts.unmigrated_apps
    THEN [kind |-> "none", key |-> key]
    ELSE IF key[1] \in opts.migrated_apps
    THEN LET found == IF key[2] = "__first__" THEN root_nodes(g, key[1])
                      ELSE leaf_nodes(g, key[1])
         IN  IF found # <<>> THEN [kind |-> "key", key |-> found[1]]
             ELSE IF opts.ignore_no_migrations
             THEN [kind |-> "none", key |-> key]
             ELSE [kind |-> "ValueError", key |-> key]
    ELSE [kind |-> "ValueError", key |-> key]

\* add_internal_dependencies(key, migration): same-app parents that are
\* not "__first__".
add_internal_dependencies(g, key, m) ==
    [g EXCEPT !.edges = @ \cup
        {<<parent, key>> :
            parent \in {d \in m.dependencies :
                          d[1] = key[1] /\ d[2] # "__first__"}}]

\* add_external_dependencies(key, migration): the resolutions of the
\* other-app dependencies and of every run_before entry.  No edge this
\* call adds changes what a later check_key of the same call returns, so
\* all of them are resolved against the graph as the call found it.
ExternalParents(g, key, m, opts) ==
    {check_key(d, key[1], g, opts) :
        d \in {x \in m.dependencies : x[1] # key[1]}}

ExternalChildren(g, key, m, opts) ==
    {check_key(c, key[1], g, opts) : c \in m.run_before}

\* An add_external_dependencies that would take a run_before entry for a
\* dependency: the entry becomes the parent.
add_external_dependencies_run_before_as_parent(g, key, m, opts) ==
    LET ps == ExternalParents(g, key, m, opts)
        cs == ExternalChildren(g, key, m, opts)
    IN  [graph |-> [g EXCEPT !.edges = @
                      \cup {<<p.key, key>> : p \in {x \in ps : x.kind = "key"}}
                      \cup {<<c.key, key>> : c \in {x \in cs : x.kind = "key"}}],
         raised |-> \E x \in ps \cup cs : x.kind = "ValueError"]

add_external_dependencies(g, key, m, opts) ==
    LET ps == ExternalParents(g, key, m, opts)
        cs == ExternalChildren(g, key, m, opts)
    IN  [graph |-> [g EXCEPT !.edges = @
                      \cup {<<p.key, key>> : p \in {x \in ps : x.kind = "key"}}
                      \cup {<<key, c.key>> : c \in {x \in cs : x.kind = "key"}}],
         raised |-> \E x \in ps \cup cs : x.kind = "ValueError"]

\* The three passes over disk_migrations.items(), from position i on.
RECURSIVE NodesPass(_, _)
NodesPass(g, i) ==
    IF i > Len(diskOrder) THEN g
    ELSE NodesPass(add_node(g, diskOrder[i]), i + 1)

\* A second pass that would add nothing.
InternalPassNothing(g, i) == g

RECURSIVE InternalPass(_, _)
InternalPass(g, i) ==
    IF i > Len(diskOrder) THEN g
    ELSE InternalPass(
            add_internal_dependencies(g, diskOrder[i], disk[diskOrder[i]]),
            i + 1)

RECURSIVE ExternalPass(_, _)
ExternalPass(g, i) ==
    IF i > Len(diskOrder) THEN [graph |-> g, raised |-> FALSE]
    ELSE LET one == add_external_dependencies(g, diskOrder[i],
                                              disk[diskOrder[i]], options)
         IN  IF one.raised THEN one ELSE ExternalPass(one.graph, i + 1)

\* if migration.replaces: self.replacements[key] = migration
IsReplacing(key) == disk[key].replaces # <<>>

\* applied_statuses = [(target in self.applied_migrations) for target in
\* migration.replaces]
applied_statuses(view, replaces) ==
    [i \in 1..Len(replaces) |-> replaces[i] \in view]

all(statuses) == \A i \in 1..Len(statuses) : statuses[i]
any(statuses) == \E i \in 1..Len(statuses) : statuses[i]

\* The applied view after a squash was processed: marked applied only if
\* all of its replacement targets are, dropped otherwise.
MarkAppliedIfAny(view, key, statuses) ==
    IF any(statuses) THEN view \cup {key} ELSE view \ {key}
MarkAppliedKeepsRow(view, key, statuses) ==
    IF all(statuses) THEN view \cup {key} ELSE view
MarkApplied(view, key, statuses) ==
    IF all(statuses) THEN view \cup {key} ELSE view \ {key}

\* A replacing migration can be used if either all or none of its
\* replacement targets have been applied.
CanUseIfAllOnly(statuses) == all(statuses)
CanUseAlways(statuses) == TRUE
CanUse(statuses) == all(statuses) \/ ~any(statuses)

NewLoader ==
    [applied_migrations |-> {}, graph |-> EmptyGraph, replacements |-> <<>>,
     r |-> 0, error |-> ""]

\* build_graph, up to the first pass: load_disk, the recorder's applied
\* migrations, a node for every migration, and the replacements.
BuildLoad ==
    /\ lpc = "load"
    /\ loader' = [NewLoader EXCEPT
                    !.applied_migrations = applied_migrations_of(ledger),
                    !.graph = NodesPass(EmptyGraph, 1),
                    !.replacements = SelectSeq(diskOrder, IsReplacing)]
    /\ lpc' = "internal"
    /\ UNCHANGED <<disk, diskOrder, ledger, options, viewAt>>
    /\ UNCHANGED <<engineVars, serviceVars>>

\* The second pass: internal (same app) dependencies.
BuildInternal ==
    /\ lpc = "internal"
    /\ loader' = [loader EXCEPT !.graph = InternalPass(@, 1)]
    /\ lpc' = "external"
    /\ UNCHANGED <<disk, diskOrder, ledger, options, viewAt>>
    /\ UNCHANGED <<engineVars, serviceVars>>

\* A build_graph that would validate before it looks at the replacements.
AfterExternalValidate == "validate"

\* Where build_graph goes after the third pass.
AfterExternal ==
    IF options.replace_migrations /\ loader.replacements # <<>>
    THEN "replace" ELSE "validate"

\* The third pass: external dependencies and run_before.
BuildExternal ==
    /\ lpc = "external"
    /\ LET out == ExternalPass(loader.graph, 1)
       IN  IF out.raised
           THEN /\ loader' = [loader EXCEPT !.error = "ValueError"]
                /\ lpc' = "failed"
           ELSE /\ loader' = [loader EXCEPT !.graph = out.graph, !.r = 1]
                /\ lpc' = AfterExternal
    /\ UNCHANGED <<disk, diskOrder, ledger, options, viewAt>>
    /\ UNCHANGED <<engineVars, serviceVars>>

\* if self.replace_migrations: one turn of the loop over the replacements.
BuildReplace ==
    /\ lpc = "replace"
    /\ LET key == loader.replacements[loader.r]
           replaces == disk[key].replaces
           statuses == applied_statuses(loader.applied_migrations, replaces)
       IN  /\ loader' = [loader EXCEPT
                 !.applied_migrations = MarkApplied(@, key, statuses),
                 !.graph = IF CanUse(statuses)
                           THEN remove_replaced_nodes(@, key, replaces)
                           ELSE remove_replacement_node(@, key, replaces),
                 !.r = @ + 1]
           /\ viewAt' = (key :> loader.applied_migrations) @@ viewAt
    /\ lpc' = IF loader.r = Len(loader.replacements) THEN "validate"
              ELSE "replace"
    /\ UNCHANGED <<disk, diskOrder, ledger, options>>
    /\ UNCHANGED <<engineVars, serviceVars>>

\* self.graph.validate_consistency(), and the clearer NodeNotFoundError
\* for a node that only a partially applied squash could have replaced.
ValidationSkipped(g) == TRUE
ValidationPasses(g) == MissingNodes(g) = {}

BuildValidate ==
    /\ lpc = "validate"
    /\ IF ValidationPasses(loader.graph)
       THEN /\ lpc' = "acyclic"
            /\ UNCHANGED loader
       ELSE /\ \E node \in MissingNodes(loader.graph) :
                 LET candidates ==
                        {k \in Range(loader.replacements) :
                            node \in Range(disk[k].replaces)}
                     is_replaced ==
                        \E c \in candidates : c \in loader.graph.nodes
                 IN  loader' = [loader EXCEPT !.error =
                        IF candidates # {} /\ ~is_replaced
                        THEN "NodeNotFoundError: partially applied squash"
                        ELSE "NodeNotFoundError"]
            /\ lpc' = "failed"
    /\ UNCHANGED <<disk, diskOrder, ledger, options, viewAt>>
    /\ UNCHANGED <<engineVars, serviceVars>>

\* self.graph.ensure_not_cyclic()
CycleCheckSkipped(g) == TRUE
CycleCheckPasses(g) == ~HasCycle(g)

BuildAcyclic ==
    /\ lpc = "acyclic"
    /\ IF CycleCheckPasses(loader.graph)
       THEN /\ lpc' = "done"
            /\ UNCHANGED loader
       ELSE /\ loader' = [loader EXCEPT !.error = "CircularDependencyError"]
            /\ lpc' = "failed"
    /\ UNCHANGED <<disk, diskOrder, ledger, options, viewAt>>
    /\ UNCHANGED <<engineVars, serviceVars>>

(***************************************************************************)
(* The engine's specification.                                             *)
(***************************************************************************)
OperationLists == UNION {[1..n -> OperationAttrs] : n \in 0..MaxOps}

\* A migration, and the schema editor its caller builds with
\* atomic=migration.atomic: the editor runs a whole-migration transaction
\* only for an atomic migration on a storage with transactional DDL.
\* reduces_to_sql is read only when collecting SQL; the runs that collect
\* SQL take operations that leave atomic unset.
EngineStart ==
    /\ migration \in [atomic : BOOLEAN, operations : OperationLists]
    /\ editor \in [atomic_migration : BOOLEAN, collect_sql : BOOLEAN,
                   collected_sql : {<<>>}]
    /\ editor.atomic_migration => migration.atomic
    /\ \A k \in 1..Len(migration.operations) :
         IF editor.collect_sql
         THEN migration.operations[k].atomic = "None"
         ELSE migration.operations[k].reduces_to_sql
    /\ heap = << <<0>> >>
    /\ callerState = 1
    /\ frame = NoFrame
    /\ pc = "idle"
    /\ db = <<>>
    /\ tx = <<>>
    /\ calls = <<>>
    /\ events = <<>>
    /\ history = <<>>

NextEngine ==
    \/ CallApply
    \/ ApplyStateStep
    \/ ApplyEnter
    \/ ApplyCall
    \/ ApplyExit
    \/ ApplyReturn
    \/ CallUnapply
    \/ UnapplyPhase1Step
    \/ UnapplyPhase1Done
    \/ UnapplyEnter
    \/ UnapplyCall
    \/ UnapplyExit
    \/ UnapplyReturn

\* No query has been made, the recorder and the command are not in use.
NoLookup == [fn |-> "none"]

RecorderIdle ==
    /\ table = FALSE
    /\ tableRows = <<>>
    /\ rcalls = <<>>

CommandIdle == cmd = [pc |-> "unused"]

ServiceIdle ==
    /\ lookup = NoLookup
    /\ RecorderIdle
    /\ CommandIdle

LoaderIdle ==
    /\ disk = <<>>
    /\ diskOrder = <<>>
    /\ ledger = {}
    /\ options = [replace_migrations |-> TRUE, ignore_no_migrations |-> FALSE,
                  migrated_apps |-> {}, unmigrated_apps |-> {}]
    /\ loader = NewLoader
    /\ lpc = "unused"
    /\ viewAt = <<>>

InitEngine == EngineStart /\ LoaderIdle /\ ServiceIdle

SpecEngine == InitEngine /\ [][NextEngine]_vars


(***************************************************************************)
(* The loader's specification: build_graph over a family of authored       *)
(* migrations and ledgers.                                                 *)
(***************************************************************************)
\* Most dependency and run_before entries declared in one family member.
MaxDeps == 2
\* Longest replaces list of a squash migration.
MaxReplaces == 2

\* A declaration: migration "from" lists "to" in its dependencies, or in
\* its run_before.
ConcreteDeps ==
    {d \in [kind : {"dependency"}, from : KeyUniverse, to : KeyUniverse] :
        d.from # d.to}

SentinelKeys == {<<app, s>> : app \in Apps, s \in Sentinels}

SpecialDecls ==
    [kind : {"dependency"}, from : KeyUniverse, to : SentinelKeys]
    \cup {d \in [kind : {"run_before"}, from : KeyUniverse,
                 to : KeyUniverse \cup SentinelKeys] : d.from # d.to}

\* The replaces lists a squash of app "a" may carry: distinct keys of its
\* own app other than itself.
DistinctSeqs(S, n) ==
    {q \in UNION {[1..k -> S] : k \in 0..n} :
        \A i, j \in 1..Len(q) : i # j => q[i] # q[j]}

ReplacesChoices(key) == DistinctSeqs({A1, A2, A3} \ {key}, MaxReplaces)

\* The files on disk that a set of declarations and replaces lists make.
DiskOf(keys, decls, replaces) ==
    [k \in keys |->
       [dependencies |-> {d.to : d \in {x \in decls :
                              x.kind = "dependency" /\ x.from = k}},
        run_before |-> {d.to : d \in {x \in decls :
                              x.kind = "run_before" /\ x.from = k}},
        replaces |-> replaces[k]]]

Ascending(keys) == SortKeys(keys)
Descending(keys) ==
    LET up == SortKeys(keys)
    IN  [i \in 1..Len(up) |-> up[Len(up) + 1 - i]]

EngineIdle ==
    /\ migration = [atomic |-> TRUE, operations |-> <<>>]
    /\ editor = [atomic_migration |-> FALSE, collect_sql |-> FALSE,
                 collected_sql |-> <<>>]
    /\ heap = << <<0>> >>
    /\ callerState = 1
    /\ frame = NoFrame
    /\ pc = "unused"
    /\ db = <<>>
    /\ tx = <<>>
    /\ calls = <<>>
    /\ events = <<>>
    /\ history = <<>>

\* Squash family: concrete dependencies only, up to two squashes in app
\* "a" (alone, nested, overlapping), the original 0001 possibly deleted
\* from disk, any ledger over app "a".
SquashFamily ==
    \E off \in {{}, {A1}}, decls \in SUBSET ConcreteDeps,
       r2 \in ReplacesChoices(A2), r3 \in ReplacesChoices(A3),
       rows \in SUBSET {A1, A2, A3}, enabled \in BOOLEAN :
       LET keys == KeyUniverse \ off
           replaces == [k \in keys |-> IF k = A2 THEN r2
                                       ELSE IF k = A3 THEN r3 ELSE <<>>]
       IN  /\ Cardinality(decls) <= MaxDeps
           /\ \A d \in decls : d.from \in keys
           /\ ~enabled => decls = {}
           /\ disk = DiskOf(keys, decls, replaces)
           /\ diskOrder \in
                 IF r2 # <<>> /\ r3 # <<>>
                 THEN {Ascending(keys), Descending(keys)}
                 ELSE {Ascending(keys)}
           /\ ledger = rows
           /\ options = [replace_migrations |-> enabled,
                         ignore_no_migrations |-> FALSE,
                         migrated_apps |-> Apps, unmigrated_apps |-> {}]

\* Sentinel family: one "__first__" / "__latest__" dependency or one
\* run_before entry beside concrete dependencies, no squash, app "b"
\* with its migration, with an empty migrations package, or without one.
SentinelFamily ==
    \E special \in SpecialDecls, decls \in SUBSET ConcreteDeps,
       bstate \in {"migrated", "empty", "unmigrated", "unknown"},
       ignore \in BOOLEAN :
       LET keys == IF bstate = "migrated" THEN KeyUniverse
                   ELSE KeyUniverse \ {B1}
       IN  /\ Cardinality(decls) + 1 <= MaxDeps
           /\ \A d \in decls \cup {special} : d.from \in keys
           /\ disk = DiskOf(keys, decls \cup {special}, [k \in keys |-> <<>>])
           /\ diskOrder \in {Ascending(keys), Descending(keys)}
           /\ ledger = {}
           /\ options = [replace_migrations |-> TRUE,
                         ignore_no_migrations |-> ignore,
                         migrated_apps |->
                            IF bstate \in {"migrated", "empty"}
                            THEN Apps ELSE {"a"},
                         unmigrated_apps |->
                            IF bstate = "unmigrated" THEN {"b"} ELSE {}]

LoaderStart ==
    /\ SquashFamily \/ SentinelFamily
    /\ loader = NewLoader
    /\ lpc = "load"
    /\ viewAt = <<>>

InitLoader == LoaderStart /\ EngineIdle /\ ServiceIdle

NextLoader ==
    \/ BuildLoad
    \/ BuildInternal
    \/ BuildExternal
    \/ BuildReplace
    \/ BuildValidate
    \/ BuildAcyclic

SpecLoader == InitLoader /\ [][NextLoader]_vars

(***************************************************************************)
(* Properties of the migration engine (checked under SpecEngine).          *)
(***************************************************************************)
\* The precedence rule as the specification words it: an explicit True or
\* False of the operation wins, None defers to the migration.
PrecedenceRule(op, m) ==
    CASE op.atomic = "True" -> TRUE
      [] op.atomic = "False" -> FALSE
      [] OTHER -> m.atomic

\* atomicStep of the operation of physical call c.
AtomicStep(c) == PrecedenceRule(migration.operations[c.op], migration)

\* The physical calls made during call number n of the caller.
CallsOf(n) == {k \in 1..Len(calls) : calls[k].call = n}

AllReversible ==
    \A k \in 1..Len(migration.operations) :
       migration.operations[k].reversible

\* The position of the first irreversible operation.
FirstIrreversible ==
    CHOOSE j \in 1..Len(migration.operations) :
       /\ ~migration.operations[j].reversible
       /\ \A i \in 1..(j - 1) : migration.operations[i].reversible

\* C4: if any operation of the migration is irreversible, at whatever
\* position, unapply raises, makes no physical backward call and leaves the
\* caller's snapshot as it was.  The error is IrreversibleError; the only
\* other way out is the state replay of an operation placed before the
\* first irreversible one raising an error of its own.
C4_IrreversibleRejectedWhole ==
    \A n \in 1..Len(history) :
       (history[n].fn = "unapply" /\ ~AllReversible) =>
          /\ history[n].status = "raised"
          /\ \/ history[n].error = "IrreversibleError"
             \/ /\ history[n].error = "state_forwards"
                /\ history[n].op < FirstIrreversible
          /\ CallsOf(n) = {}
          /\ history[n].inputAfter = history[n].argValue

\* C4 witness: an unapply was rejected because of an irreversible operation
\* that is not the first one, after a state-changing reversible operation
\* had been replayed.
C4_Witness ==
    /\ Len(migration.operations) = 2
    /\ migration.operations[1].reversible
    /\ migration.operations[1].changes_state
    /\ ~migration.operations[2].reversible
    /\ \E n \in 1..Len(history) :
          /\ history[n].fn = "unapply"
          /\ history[n].error = "IrreversibleError"
          /\ history[n].op = 2

\* An apply that returned, directly followed by an unapply, on the state
\* apply returned, that returned too.
RoundTrip(n) ==
    /\ n + 1 <= Len(history)
    /\ history[n].fn = "apply"
    /\ history[n].status = "returned"
    /\ history[n + 1].fn = "unapply"
    /\ history[n + 1].status = "returned"
    /\ history[n + 1].arg = history[n].ret

\* C5 as claimed: with all operations reversible, apply followed by unapply
\* on the state apply returned yields a snapshot equal to the pre-apply one.
C5_Original ==
    \A n \in 1..Len(history) :
       (AllReversible /\ RoundTrip(n)) =>
          history[n + 1].retValue = history[n].argValue

\* C5 amended: with all operations reversible, apply followed by unapply on
\* the state apply returned yields that very state with the content apply
\* left in it (the post-apply snapshot): unapply returns its argument as it
\* received it, so the pre-apply snapshot comes back only when no operation
\* that apply ran changes the state.
C5_RoundTripReturnsPostApply ==
    \A n \in 1..Len(history) :
       (AllReversible /\ RoundTrip(n)) =>
          /\ history[n + 1].ret = history[n].ret
          /\ history[n + 1].retValue = history[n].retValue
          /\ (history[n + 1].retValue = history[n].argValue) <=>
                (history[n].retValue = history[n].argValue)

\* C5 witness: a round trip over a reversible state-changing migration.
C5_Witness ==
    /\ AllReversible
    /\ ~editor.collect_sql
    /\ \E k \in 1..Len(migration.operations) :
          migration.operations[k].changes_state
    /\ RoundTrip(1)

\* C7: every physical call, of apply and of unapply alike, carries the
\* atomicity the precedence rule gives its operation: True wins over a
\* non-atomic migration, False over an atomic one, None takes the
\* migration's.
C7_AtomicPrecedence ==
    \A k \in 1..Len(calls) : calls[k].atomic_operation = AtomicStep(calls[k])

\* C7 witness: in an atomic migration, apply and unapply both made the call
\* of an operation with atomic = False, and computed a non-atomic step.
C7_Witness ==
    /\ migration.atomic
    /\ \E a, b \in 1..Len(calls) :
          /\ calls[a].fn = "apply"
          /\ calls[b].fn = "unapply"
          /\ calls[a].op = calls[b].op
          /\ migration.operations[calls[a].op].atomic = "False"
          /\ ~calls[a].atomic_operation
          /\ ~calls[b].atomic_operation

\* Physical call k sits in a scoped transaction of its own: begun by the
\* event right before it and, once the call is over, ended by the event
\* right after it.
ScopedAround(k) ==
    LET at == calls[k].at
        over == at < Len(events) \/ pc \notin {"apply_exit", "unapply_exit"}
    IN  /\ at > 1
        /\ events[at - 1] = "begin"
        /\ over => /\ at < Len(events)
                    /\ events[at + 1] \in {"commit", "rollback"}

\* C8: a physical call of an operation whose atomicStep is true is issued
\* with a transaction open: the editor's whole-migration transaction, or a
\* scoped one begun right before the call and ended right after it.
C8_AtomicStepInTransaction ==
    \A k \in 1..Len(calls) :
       AtomicStep(calls[k]) =>
          /\ calls[k].open >= 1
          /\ editor.atomic_migration \/ ScopedAround(k)

\* C8 witness: an atomic step ran in a scoped transaction that committed,
\* and the next operation has been reached.
C8_Witness ==
    \E k \in 1..Len(calls) :
       /\ AtomicStep(calls[k])
       /\ ~editor.atomic_migration
       /\ calls[k].at < Len(events)
       /\ events[calls[k].at + 1] = "commit"

\* C9 as claimed: a physical call of an operation whose atomicStep is false
\* has no transaction open around it, also when the editor runs one
\* transaction for the whole migration.
C9_Original ==
    \A k \in 1..Len(calls) : ~AtomicStep(calls[k]) => calls[k].open = 0

\* C9 amended: a physical call of an operation whose atomicStep is false is
\* never given a scoped transaction; no transaction at all is open around
\* it when the editor is not running a whole-migration transaction, and
\* when the editor is, the call is issued inside that one transaction.
C9_NonAtomicStepNotScoped ==
    \A k \in 1..Len(calls) :
       ~AtomicStep(calls[k]) =>
          /\ ~calls[k].scoped
          /\ events[calls[k].at - 1] # "begin"
          /\ calls[k].open = IF editor.atomic_migration THEN 1 ELSE 0

\* C9 witness: an operation with atomic = False in an atomic migration, on
\* an editor without a whole-migration transaction, was called bare.
C9_Witness ==
    \E k \in 1..Len(calls) :
       /\ migration.atomic
       /\ ~editor.atomic_migration
       /\ migration.operations[calls[k].op].atomic = "False"
       /\ calls[k].open = 0

\* The full physical effects apply leaves for operations 1..k.
AppliedEffects(k) == [j \in 1..k |-> Effect("apply", j, TRUE)]

\* C10: when the physical call of operation k, an atomic step on an editor
\* without whole-migration transaction, fails during apply, the apply call
\* raises, nothing of operation k stays in the storage, and the effects of
\* the operations before k all do.
C10_FailureRollsBackOnlyThatOperation ==
    \A n \in 1..Len(history) :
       ( /\ history[n].fn = "apply"
         /\ history[n].error = "database"
         /\ ~editor.collect_sql
         /\ ~editor.atomic_migration
         /\ PrecedenceRule(migration.operations[history[n].op], migration) )
       =>
          /\ history[n].status = "raised"
          /\ history[n].ret = 0
          /\ history[n].dbAfter =
                history[n].dbBefore \o AppliedEffects(history[n].op - 1)
          /\ \A k \in CallsOf(n) : calls[k].op <= history[n].op

\* C10 witness: the second operation failed in its scoped transaction after
\* the first had committed in its own.
C10_Witness ==
    \E n \in 1..Len(history) :
       /\ history[n].fn = "apply"
       /\ history[n].error = "database"
       /\ history[n].op = 2
       /\ ~editor.collect_sql
       /\ \A k \in CallsOf(n) : calls[k].scoped
       /\ history[n].dbAfter = history[n].dbBefore \o AppliedEffects(1)


(***************************************************************************)
(* Properties of the loader (checked under SpecLoader).                    *)
(***************************************************************************)
\* build_graph has returned, and it processed the replacements.
BuiltWithReplacement == lpc = "done" /\ options.replace_migrations

\* The squash migrations build_graph processes.
Squashes == Range(loader.replacements)

Replaced(S) == Range(disk[S].replaces)

AllInLedger(S) == Replaced(S) \subseteq ledger
NoneInLedger(S) == Replaced(S) \cap ledger = {}

\* Squash S stands alone: no squash lists S in its replaces, and S lists
\* no squash in its own.
StandsAlone(S) ==
    /\ \A T \in Squashes : S \notin Replaced(T)
    /\ Replaced(S) \cap Squashes = {}

\* No key that S replaces is a squash or is replaced by another squash too.
OriginalsOwn(S) ==
    /\ Replaced(S) \cap Squashes = {}
    /\ \A T \in Squashes \ {S} : Replaced(T) \cap Replaced(S) = {}

\* C1 as claimed: after build_graph every squash whose replaced keys are
\* all in the ledger, or none of them, is a node of the graph and none of
\* its replaced keys is.
C1_Original ==
    BuiltWithReplacement =>
       \A S \in Squashes :
          (AllInLedger(S) \/ NoneInLedger(S)) =>
             /\ S \in loader.graph.nodes
             /\ Replaced(S) \cap loader.graph.nodes = {}

\* C1 amended: the same, for every squash that no squash lists in its
\* replaces and that lists no squash in its own.
C1_FoldWhenAllOrNone ==
    BuiltWithReplacement =>
       \A S \in Squashes :
          (StandsAlone(S) /\ (AllInLedger(S) \/ NoneInLedger(S))) =>
             /\ S \in loader.graph.nodes
             /\ Replaced(S) \cap loader.graph.nodes = {}

\* C1 witness: build_graph returned with a squash folded over two applied
\* originals that another migration depended on.
C1_Witness ==
    /\ BuiltWithReplacement
    /\ \E S \in Squashes :
          /\ StandsAlone(S)
          /\ Len(disk[S].replaces) = 2
          /\ AllInLedger(S)
          /\ S \in loader.graph.nodes
          /\ \E e \in loader.graph.edges : e[1] = S

\* S is mixed: some replaced key is in the ledger and some is not.
MixedInLedger(S) == ~AllInLedger(S) /\ ~NoneInLedger(S)

\* C2 as claimed: after build_graph a squash that is mixed is no node, its
\* replaced keys that are on disk are all nodes, and the squash is not in
\* the applied view.
C2_Original ==
    BuiltWithReplacement =>
       \A S \in Squashes :
          MixedInLedger(S) =>
             /\ S \notin loader.graph.nodes
             /\ (Replaced(S) \cap DOMAIN disk) \subseteq loader.graph.nodes
             /\ S \notin loader.applied_migrations

\* C2 amended: the same, for every mixed squash none of whose replaced
\* keys is itself a squash or is replaced by another squash as well.
C2_UnfoldWhenMixed ==
    BuiltWithReplacement =>
       \A S \in Squashes :
          (OriginalsOwn(S) /\ MixedInLedger(S)) =>
             /\ S \notin loader.graph.nodes
             /\ (Replaced(S) \cap DOMAIN disk) \subseteq loader.graph.nodes
             /\ S \notin loader.applied_migrations

\* C2 witness: build_graph returned after unfolding a mixed squash that
\* has a row of its own in the ledger and a dependent in the graph.
C2_Witness ==
    /\ BuiltWithReplacement
    /\ \E S \in Squashes :
          /\ OriginalsOwn(S)
          /\ MixedInLedger(S)
          /\ S \in ledger
          /\ Replaced(S) \subseteq loader.graph.nodes
          /\ \E d \in DOMAIN disk : S \in disk[d].dependencies

\* C3: after build_graph a squash is in the applied view exactly if every
\* key it replaces was in the applied view when the squash was processed,
\* whatever the ledger says about the squash itself.
C3_SquashAppliedIffAllReplacedApplied ==
    BuiltWithReplacement =>
       \A S \in Squashes :
          S \in loader.applied_migrations <=> Replaced(S) \subseteq viewAt[S]

\* C3 witness: the ledger has a row for a squash whose originals are not
\* all recorded, and build_graph reports the squash as not applied.
C3_Witness ==
    /\ BuiltWithReplacement
    /\ \E S \in Squashes :
          /\ S \in ledger
          /\ ~(Replaced(S) \subseteq viewAt[S])
          /\ S \notin loader.applied_migrations

\* C6: when build_graph returns, every edge of the graph joins two nodes
\* and no key can be reached from itself along the edges.
C6_BuiltGraphConsistentAndAcyclic ==
    lpc = "done" =>
       /\ \A e \in loader.graph.edges :
             e[1] \in loader.graph.nodes /\ e[2] \in loader.graph.nodes
       /\ \A n \in loader.graph.nodes :
             n \notin Descendants(loader.graph.edges,
                         {e[2] : e \in {x \in loader.graph.edges : x[1] = n}})

\* C6 witness: build_graph returned a graph with two edges after a fold
\* re-pointed a dependency.
C6_Witness ==
    /\ lpc = "done"
    /\ Cardinality(loader.graph.edges) >= 2
    /\ \E S \in Squashes :
          /\ S \in loader.graph.nodes
          /\ \E e \in loader.graph.edges :
                e[2] = S /\ e[1] \notin disk[S].dependencies


(***************************************************************************)
(* Further properties of the migration engine (checked under SpecEngine).  *)
(***************************************************************************)
\* What a call added to the snapshot it was given: the operations whose
\* state_forwards changed it, in order.
AddedBy(before, after) ==
    [j \in 1..(Len(after) - Len(before)) |-> after[Len(before) + j]]

\* The snapshot the running or finished call n was given, as it is now.
InputNow(n) ==
    IF n <= Len(history) THEN history[n].inputAfter
    ELSE heap[frame.project_state]

InputThen(n) ==
    IF n <= Len(history) THEN history[n].argValue ELSE frame.argValue

\* C11: when operation k raises during apply, in its state step or in its
\* physical step, no later operation of the migration gets a state step or
\* a physical call, and apply raises instead of returning a state.
C11_RaiseAbortsRemainingOperations ==
    /\ \A c \in 1..Len(calls) :
          (calls[c].fn = "apply" /\ ~calls[c].ok) =>
             LET n == calls[c].call
                 k == calls[c].op
             IN  /\ \A d \in 1..Len(calls) :
                       calls[d].call = n => calls[d].op <= k
                 /\ \A x \in Range(AddedBy(InputThen(n), InputNow(n))) :
                       x <= k
                 /\ n <= Len(history) =>
                       /\ history[n].status = "raised"
                       /\ history[n].ret = 0
                       /\ history[n].op = k
                 /\ n > Len(history) => pc = "apply_exit" /\ frame.i = k
    /\ \A n \in 1..Len(history) :
          (/\ history[n].fn = "apply"
           /\ history[n].status = "raised"
           /\ history[n].error = "state_forwards") =>
             /\ \A d \in 1..Len(calls) :
                   calls[d].call = n => calls[d].op < history[n].op
             /\ \A x \in Range(AddedBy(history[n].argValue,
                                       history[n].inputAfter)) :
                   x < history[n].op
             /\ history[n].ret = 0

\* C11 witness: the physical call of the first of two operations raised
\* and apply ended with that exception.
C11_Witness ==
    /\ Len(migration.operations) = 2
    /\ \E n \in 1..Len(history) :
          /\ history[n].fn = "apply"
          /\ history[n].status = "raised"
          /\ history[n].error = "database"
          /\ history[n].op = 1
          /\ \E c \in 1..Len(calls) :
                calls[c].call = n /\ calls[c].op = 1 /\ ~calls[c].ok


(***************************************************************************)
(* Queries of a built loader: detect_conflicts and                         *)
(* check_consistent_history.  SpecLoaded runs build_graph and then makes   *)
(* one query of the loader it built.                                       *)
(***************************************************************************)
\* graph.leaf_nodes() without an app: the leaves of every app, sorted.
all_leaf_nodes(g) ==
    SortKeys(UNION {Range(leaf_nodes(g, app)) : app \in {n[1] : n \in g.nodes}})

\* sorted() of a set of migration names.
RECURSIVE sorted(_)
sorted(names) ==
    IF names = {} THEN <<>>
    ELSE LET m == CHOOSE x \in names :
                     \A y \in names :
                        x = y \/ Rank(NameOrder, x) < Rank(NameOrder, y)
         IN  <<m>> \o sorted(names \ {m})

\* A grouping that would record a name only for an app already seen.
SeenNamesOnlyRepeats(seen_apps, app_label, migration_name) ==
    IF app_label \in DOMAIN seen_apps
    THEN [seen_apps EXCEPT ![app_label] = @ \cup {migration_name}]
    ELSE (app_label :> {}) @@ seen_apps

\* seen_apps.setdefault(app_label, set()).add(migration_name)
SeenNames(seen_apps, app_label, migration_name) ==
    IF app_label \in DOMAIN seen_apps
    THEN [seen_apps EXCEPT ![app_label] = @ \cup {migration_name}]
    ELSE (app_label :> {migration_name}) @@ seen_apps

\* for app_label, migration_name in self.graph.leaf_nodes(): ...
RECURSIVE DetectConflictsLoop(_, _, _, _)
DetectConflictsLoop(leaves, i, seen_apps, conflicting_apps) ==
    IF i > Len(leaves)
    THEN [seen_apps |-> seen_apps, conflicting_apps |-> conflicting_apps]
    ELSE LET app_label == leaves[i][1]
             migration_name == leaves[i][2]
         IN  DetectConflictsLoop(
                leaves, i + 1,
                SeenNames(seen_apps, app_label, migration_name),
                IF app_label \in DOMAIN seen_apps
                THEN conflicting_apps \cup {app_label}
                ELSE conflicting_apps)

\* MigrationLoader.detect_conflicts: app label -> sorted leaf names, for
\* the apps with more than one leaf.
detect_conflicts(g) ==
    LET r == DetectConflictsLoop(all_leaf_nodes(g), 1, <<>>, {})
    IN  [app_label \in r.conflicting_apps |-> sorted(r.seen_apps[app_label])]

\* self.graph.node_map[migration].parents
Parents(g, key) == {e[1] : e \in {x \in g.edges : x[2] = key}}

\* A history check that would not excuse a squash whose replaced
\* migrations are all applied.
SquashCoveredNever(parent, applied, replacements, disk_migrations) == FALSE

\* if parent in self.replacements:
\*     if all(m in applied for m in self.replacements[parent].replaces)
SquashCovered(parent, applied, replacements, disk_migrations) ==
    /\ parent \in Range(replacements)
    /\ \A m \in Range(disk_migrations[parent].replaces) : m \in applied

\* The (migration, parent) pairs at which check_consistent_history raises.
InconsistentPairs(g, applied, replacements, disk_migrations) ==
    {pair \in applied \X g.nodes :
        /\ pair[1] \in g.nodes
        /\ pair[2] \in Parents(g, pair[1])
        /\ pair[2] \notin applied
        /\ ~SquashCovered(pair[2], applied, replacements, disk_migrations)}

\* conflicts = loader.detect_conflicts()
DetectConflicts ==
    /\ lpc = "done"
    /\ lookup = NoLookup
    /\ lookup' = [fn |-> "detect_conflicts",
                  result |-> detect_conflicts(loader.graph)]
    /\ UNCHANGED <<loaderVars, engineVars, recorderVars, cmd>>

\* loader.check_consistent_history(connection): the recorder is read
\* afresh; the first offending pair met raises.
CheckConsistentHistory ==
    /\ lpc = "done"
    /\ lookup = NoLookup
    /\ LET bad == InconsistentPairs(loader.graph,
                                    applied_migrations_of(ledger),
                                    loader.replacements, disk)
       IN  IF bad = {}
           THEN lookup' = [fn |-> "check_consistent_history",
                           raised |-> FALSE, pair |-> <<>>]
           ELSE \E pair \in bad :
                   lookup' = [fn |-> "check_consistent_history",
                              raised |-> TRUE, pair |-> pair]
    /\ UNCHANGED <<loaderVars, engineVars, recorderVars, cmd>>

NextLoaded ==
    \/ BuildLoad
    \/ BuildInternal
    \/ BuildExternal
    \/ BuildReplace
    \/ BuildValidate
    \/ BuildAcyclic
    \/ DetectConflicts
    \/ CheckConsistentHistory

SpecLoaded == InitLoader /\ [][NextLoaded]_vars

\* The names of an app's leaves in the built graph.
LeafNames(app) == {n[2] : n \in Range(leaf_nodes(loader.graph, app))}

Ascends(names) ==
    \A i, j \in 1..Len(names) :
       i < j => Rank(NameOrder, names[i]) < Rank(NameOrder, names[j])

\* C12: detect_conflicts has an entry for an app exactly if the app has
\* two or more leaves in the built graph, and the entry holds every leaf
\* name of the app, the first one met too, in sorted order.
C12_ConflictsAreAppsWithSeveralLeaves ==
    lookup.fn = "detect_conflicts" =>
       \A app \in Apps :
          /\ app \in DOMAIN lookup.result
                <=> Cardinality(LeafNames(app)) >= 2
          /\ app \in DOMAIN lookup.result =>
                /\ Range(lookup.result[app]) = LeafNames(app)
                /\ Len(lookup.result[app]) = Cardinality(LeafNames(app))
                /\ Ascends(lookup.result[app])

\* C12 witness: app "a" has three leaves and app "b" one; only "a" is
\* reported.
C12_Witness ==
    /\ lookup.fn = "detect_conflicts"
    /\ Cardinality(LeafNames("a")) = 3
    /\ Cardinality(LeafNames("b")) = 1
    /\ DOMAIN lookup.result = {"a"}

\* C14: check_consistent_history raises exactly if some ledger key that is
\* a node of the graph has a parent that is not in the ledger and is not a
\* squash whose replaced keys are all in the ledger; ledger keys that are
\* no nodes play no part.
C14_InconsistentHistoryIff ==
    lookup.fn = "check_consistent_history" =>
       (lookup.raised <=>
          \E child \in ledger \cap loader.graph.nodes :
             \E e \in loader.graph.edges :
                /\ e[2] = child
                /\ e[1] \notin ledger
                /\ ~(/\ disk[e[1]].replaces # <<>>
                     /\ Replaced(e[1]) \subseteq ledger))

\* C14 witness: the ledger holds the child of a folded squash that has no
\* row of its own, and a key that is no node; the check passes.
C14_Witness ==
    /\ lookup.fn = "check_consistent_history"
    /\ ~lookup.raised
    /\ ledger \ loader.graph.nodes # {}
    /\ \E child \in ledger \cap loader.graph.nodes :
          \E e \in loader.graph.edges :
             /\ e[2] = child
             /\ e[1] \notin ledger
             /\ disk[e[1]].replaces # <<>>


(***************************************************************************)
(* MigrationLoader.get_migration_by_prefix.  SpecPrefix puts some          *)
(* migration files on disk and looks one up by app label and name prefix.  *)
(***************************************************************************)
\* The characters of the names and prefixes used.
Chars ==
    ("" :> <<>>)
    @@ ("0" :> <<"0">>)
    @@ ("000" :> <<"0", "0", "0">>)
    @@ ("0001" :> <<"0", "0", "0", "1">>)
    @@ ("0001_x" :> <<"0", "0", "0", "1", "_", "x">>)
    @@ ("0002" :> <<"0", "0", "0", "2">>)
    @@ ("0003" :> <<"0", "0", "0", "3">>)
    @@ ("1" :> <<"1">>)

\* str.startswith
startswith(name, prefix) ==
    /\ Len(Chars[prefix]) <= Len(Chars[name])
    /\ SubSeq(Chars[name], 1, Len(Chars[prefix])) = Chars[prefix]

\* A search in which a name equal to the prefix would beat longer names.
MatchingExactWins(order, app_label, name_prefix) ==
    LET hit(k) == k[1] = app_label /\ startswith(k[2], name_prefix)
        exact(k) == k[1] = app_label /\ k[2] = name_prefix
    IN  IF SelectSeq(order, exact) # <<>> THEN SelectSeq(order, exact)
        ELSE SelectSeq(order, hit)

\* results: the keys of disk_migrations of the app whose name starts with
\* the prefix, in iteration order.
Matching(order, app_label, name_prefix) ==
    LET hit(k) == k[1] = app_label /\ startswith(k[2], name_prefix)
    IN  SelectSeq(order, hit)

get_migration_by_prefix(order, app_label, name_prefix) ==
    LET results == Matching(order, app_label, name_prefix)
    IN  IF Len(results) > 1
        THEN [outcome |-> "AmbiguityError", migration |-> <<>>]
        ELSE IF results = <<>>
        THEN [outcome |-> "KeyError", migration |-> <<>>]
        ELSE [outcome |-> "returned", migration |-> results[1]]

PrefixNames == <<"0001", "0001_x", "0002">>
PrefixChoices == {"", "0", "000", "0001", "0001_x", "0002", "0003", "1"}
PrefixKeys == {<<app, PrefixNames[i]>> : app \in Apps, i \in 1..Len(PrefixNames)}

PrefixLess(k, l) ==
    \/ Rank(AppOrder, k[1]) < Rank(AppOrder, l[1])
    \/ /\ k[1] = l[1]
       /\ Rank(PrefixNames, k[2]) < Rank(PrefixNames, l[2])

RECURSIVE PrefixSorted(_)
PrefixSorted(S) ==
    IF S = {} THEN <<>>
    ELSE LET m == CHOOSE x \in S : \A y \in S : x = y \/ PrefixLess(x, y)
         IN  <<m>> \o PrefixSorted(S \ {m})

\* Any set of files of two apps, iterated in either direction.
PrefixStart ==
    /\ \E keys \in SUBSET PrefixKeys :
          /\ disk = DiskOf(keys, {}, [k \in keys |-> <<>>])
          /\ \E up \in {PrefixSorted(keys)} :
                diskOrder \in {up, [i \in 1..Len(up) |-> up[Len(up) + 1 - i]]}
    /\ ledger = {}
    /\ options = [replace_migrations |-> TRUE, ignore_no_migrations |-> FALSE,
                  migrated_apps |-> Apps, unmigrated_apps |-> {}]
    /\ loader = NewLoader
    /\ lpc = "unused"
    /\ viewAt = <<>>

InitPrefix == PrefixStart /\ EngineIdle /\ ServiceIdle

\* loader.get_migration_by_prefix(app_label, name_prefix)
GetMigrationByPrefix ==
    /\ lookup = NoLookup
    /\ \E app_label \in Apps, name_prefix \in PrefixChoices :
          LET r == get_migration_by_prefix(diskOrder, app_label, name_prefix)
          IN  lookup' = [fn |-> "get_migration_by_prefix",
                         app_label |-> app_label,
                         name_prefix |-> name_prefix,
                         outcome |-> r.outcome,
                         migration |-> r.migration]
    /\ UNCHANGED <<loaderVars, engineVars, recorderVars, cmd>>

NextPrefix == GetMigrationByPrefix

SpecPrefix == InitPrefix /\ [][NextPrefix]_vars

\* name = prefix followed by something.
BeginsWith(name, prefix) ==
    \E i \in 0..Len(Chars[name]) :
       Chars[name] = Chars[prefix] \o SubSeq(Chars[name], i + 1, Len(Chars[name]))

\* The files of the app asked for whose name begins with the prefix.
PrefixHits ==
    {k \in DOMAIN disk :
        k[1] = lookup.app_label /\ BeginsWith(k[2], lookup.name_prefix)}

\* C13: get_migration_by_prefix over the files of one app: one name
\* beginning with the prefix returns that migration, none raises KeyError,
\* two or more raise AmbiguityError even if the prefix is the whole name of
\* one of them; files of other apps never count.
C13_PrefixLookup ==
    lookup.fn = "get_migration_by_prefix" =>
       /\ Cardinality(PrefixHits) = 1 =>
             /\ lookup.outcome = "returned"
             /\ lookup.migration \in PrefixHits
       /\ PrefixHits = {} => lookup.outcome = "KeyError"
       /\ Cardinality(PrefixHits) >= 2 => lookup.outcome = "AmbiguityError"

\* C13 witness: the prefix is the full name of a file of the app, a longer
\* name of the app begins with it too, another app holds the same names,
\* and the lookup is ambiguous.
C13_Witness ==
    /\ lookup.fn = "get_migration_by_prefix"
    /\ lookup.outcome = "AmbiguityError"
    /\ <<lookup.app_label, lookup.name_prefix>> \in DOMAIN disk
    /\ Cardinality(PrefixHits) = 2
    /\ \E k \in DOMAIN disk : k[1] # lookup.app_label


(***************************************************************************)
(* MigrationRecorder.  SpecRecorder makes a bounded sequence of calls of   *)
(* one recorder; table and tableRows are the django_migrations table, a    *)
(* row being the (app, name) it was created with.                          *)
(***************************************************************************)
\* Number of calls made of the recorder in one run.
MaxRecorderCalls == 3

RecorderKeys == {A1, B1}

\* has_table(): the table is among the connection's table names.
has_table(tbl) == tbl

\* An ensure_schema that would create the table without looking first.
ensure_schema_without_looking(tbl, ok) ==
    IF ok /\ ~tbl THEN [table |-> TRUE, outcome |-> "returned"]
    ELSE [table |-> tbl, outcome |-> "MigrationSchemaMissing"]

\* ensure_schema(): nothing to do if the table is there; otherwise
\* create_model, whose DatabaseError becomes MigrationSchemaMissing.
ensure_schema(tbl, ok) ==
    IF has_table(tbl) THEN [table |-> tbl, outcome |-> "returned"]
    ELSE IF ok THEN [table |-> TRUE, outcome |-> "returned"]
    ELSE [table |-> FALSE, outcome |-> "MigrationSchemaMissing"]

\* applied_migrations(): the keys of the rows, or nothing without a table.
applied_migrations(tbl, rws) ==
    IF has_table(tbl) THEN Range(rws) ELSE {}

\* self.migration_qs.create(app=app, name=name)
CreateRow(rws, key) == Append(rws, key)

\* A delete that would remove one matching row only.
DeleteOneRow(rws, key) ==
    IF key \notin Range(rws) THEN rws
    ELSE LET i == CHOOSE j \in 1..Len(rws) :
                     rws[j] = key /\ \A h \in 1..(j - 1) : rws[h] # key
         IN  SubSeq(rws, 1, i - 1) \o SubSeq(rws, i + 1, Len(rws))

\* self.migration_qs.filter(app=app, name=name).delete()
DeleteRows(rws, key) ==
    LET keep(k) == k # key
    IN  SelectSeq(rws, keep)

RecorderCall(fn, key, outcome, result) ==
    [fn |-> fn, key |-> key, outcome |-> outcome, result |-> result,
     tableBefore |-> table, rowsBefore |-> tableRows,
     tableAfter |-> table', rowsAfter |-> tableRows']

RecorderRuns == Len(rcalls) < MaxRecorderCalls

EnsureSchema ==
    /\ RecorderRuns
    /\ \E ok \in BOOLEAN :
          LET e == ensure_schema(table, ok)
          IN  /\ table' = e.table
              /\ tableRows' = tableRows
              /\ rcalls' = Append(rcalls,
                              RecorderCall("ensure_schema", <<>>, e.outcome, {}))
    /\ UNCHANGED <<loaderVars, engineVars, lookup, cmd>>

AppliedMigrations ==
    /\ RecorderRuns
    /\ UNCHANGED <<table, tableRows>>
    /\ rcalls' = Append(rcalls,
                    RecorderCall("applied_migrations", <<>>, "returned",
                                 applied_migrations(table, tableRows)))
    /\ UNCHANGED <<loaderVars, engineVars, lookup, cmd>>

RecordApplied ==
    /\ RecorderRuns
    /\ \E key \in RecorderKeys, ok \in BOOLEAN :
          LET e == ensure_schema(table, ok)
          IN  /\ table' = e.table
              /\ tableRows' = IF e.outcome = "returned"
                              THEN CreateRow(tableRows, key)
                              ELSE tableRows
              /\ rcalls' = Append(rcalls,
                              RecorderCall("record_applied", key, e.outcome, {}))
    /\ UNCHANGED <<loaderVars, engineVars, lookup, cmd>>

RecordUnapplied ==
    /\ RecorderRuns
    /\ \E key \in RecorderKeys, ok \in BOOLEAN :
          LET e == ensure_schema(table, ok)
          IN  /\ table' = e.table
              /\ tableRows' = IF e.outcome = "returned"
                              THEN DeleteRows(tableRows, key)
                              ELSE tableRows
              /\ rcalls' = Append(rcalls,
                              RecorderCall("record_unapplied", key, e.outcome, {}))
    /\ UNCHANGED <<loaderVars, engineVars, lookup, cmd>>

\* flush(): every row is deleted; without the table the query fails.
Flush ==
    /\ RecorderRuns
    /\ UNCHANGED table
    /\ tableRows' = <<>>
    /\ rcalls' = Append(rcalls,
                    RecorderCall("flush", <<>>,
                                 IF table THEN "returned" ELSE "DatabaseError",
                                 {}))
    /\ UNCHANGED <<loaderVars, engineVars, lookup, cmd>>

RecorderStart ==
    /\ table \in BOOLEAN
    /\ tableRows = <<>>
    /\ rcalls = <<>>

InitRecorder ==
    RecorderStart /\ EngineIdle /\ LoaderIdle /\ lookup = NoLookup /\ CommandIdle

NextRecorder ==
    \/ EnsureSchema
    \/ AppliedMigrations
    \/ RecordApplied
    \/ RecordUnapplied
    \/ Flush

SpecRecorder == InitRecorder /\ [][NextRecorder]_vars

\* The number of rows held for a key.
RowsOf(key) == Cardinality({i \in 1..Len(tableRows) : tableRows[i] = key})

\* C15 as claimed: whatever calls were made, the table holds at most one
\* row for each (app, name).
C15_AtMostOneRowPerKey ==
    \A key \in RecorderKeys : RowsOf(key) <= 1

\* C15 witness: record_applied returned for a key that already had a row.
C15_Witness ==
    \E n \in 1..Len(rcalls) :
       /\ rcalls[n].fn = "record_applied"
       /\ rcalls[n].outcome = "returned"
       /\ rcalls[n].key \in Range(rcalls[n].rowsBefore)

\* The keys whose last call that returned, among the first n calls, was
\* record_applied, no flush having returned after it.
LastRecordedApplied(n) ==
    {key \in RecorderKeys :
        \E i \in 1..n :
           /\ rcalls[i].fn = "record_applied"
           /\ rcalls[i].key = key
           /\ rcalls[i].outcome = "returned"
           /\ \A j \in (i + 1)..n :
                 rcalls[j].outcome = "returned" =>
                    /\ rcalls[j].fn # "flush"
                    /\ ~(rcalls[j].fn = "record_unapplied"
                         /\ rcalls[j].key = key)}

\* C16: applied_migrations returns exactly the keys whose most recent call
\* was record_applied with no flush after it (calls that raised count for
\* nothing), and record_unapplied(k) removes k and no other key.
C16_AppliedSetFollowsCalls ==
    \A n \in 1..Len(rcalls) :
       /\ rcalls[n].fn = "applied_migrations" =>
             rcalls[n].result = LastRecordedApplied(n - 1)
       /\ (rcalls[n].fn = "record_unapplied"
           /\ rcalls[n].outcome = "returned") =>
             applied_migrations(rcalls[n].tableAfter, rcalls[n].rowsAfter)
                = applied_migrations(rcalls[n].tableBefore,
                                     rcalls[n].rowsBefore) \ {rcalls[n].key}

\* C16 witness: a key was recorded, then unapplied, and
\* applied_migrations then reported no key.
C16_Witness ==
    /\ Len(rcalls) = 3
    /\ rcalls[1].fn = "record_applied" /\ rcalls[1].outcome = "returned"
    /\ rcalls[2].fn = "record_unapplied" /\ rcalls[2].outcome = "returned"
    /\ rcalls[2].key = rcalls[1].key
    /\ rcalls[3].fn = "applied_migrations"
    /\ rcalls[3].result = {}

\* C17: applied_migrations without the table returns the empty set, does
\* not raise and does not create the table; the table only appears in
\* ensure_schema, record_applied or record_unapplied; ensure_schema with
\* the table present returns and changes nothing.
C17_TableCreatedOnlyByEnsureSchema ==
    \A n \in 1..Len(rcalls) :
       /\ (rcalls[n].fn = "applied_migrations" /\ ~rcalls[n].tableBefore) =>
             /\ rcalls[n].result = {}
             /\ rcalls[n].outcome = "returned"
             /\ ~rcalls[n].tableAfter
       /\ (~rcalls[n].tableBefore /\ rcalls[n].tableAfter) =>
             rcalls[n].fn \in {"ensure_schema", "record_applied",
                               "record_unapplied"}
       /\ (rcalls[n].fn = "ensure_schema" /\ rcalls[n].tableBefore) =>
             /\ rcalls[n].outcome = "returned"
             /\ rcalls[n].tableAfter
             /\ rcalls[n].rowsAfter = rcalls[n].rowsBefore

\* C17 witness: applied_migrations was called without the table, then
\* record_applied created it, then ensure_schema found it with a row.
C17_Witness ==
    /\ Len(rcalls) = 3
    /\ rcalls[1].fn = "applied_migrations" /\ ~rcalls[1].tableBefore
    /\ rcalls[2].fn = "record_applied" /\ rcalls[2].tableAfter
    /\ rcalls[3].fn = "ensure_schema" /\ rcalls[3].rowsBefore # <<>>


(***************************************************************************)
(* MigrationGraph.forwards_plan and backwards_plan.  SpecGraph builds the  *)
(* graph of every set of dependencies among four migrations and asks for   *)
(* the plan of one of its nodes.                                           *)
(***************************************************************************)
Children(g, key) == {e[2] : e \in {x \in g.edges : x[1] = key}}

Reverse(q) == [i \in 1..Len(q) |-> q[Len(q) + 1 - i]]

\* Depth-first walk from the entries of the stack; a node is listed once
\* everything it has to come after is listed.  A stack entry is a node
\* with the mark "its neighbours are already on the stack".
RECURSIVE iterative_dfs(_, _, _, _)
iterative_dfs(g, forwards, stack, visited) ==
    IF stack = <<>> THEN visited
    ELSE LET node == stack[Len(stack)][1]
             processed == stack[Len(stack)][2]
             rest == SubSeq(stack, 1, Len(stack) - 1)
             next == SortKeys(IF forwards THEN Parents(g, node)
                              ELSE Children(g, node))
         IN  IF node \in Range(visited)
             THEN iterative_dfs(g, forwards, rest, visited)
             ELSE IF processed
             THEN iterative_dfs(g, forwards, rest, Append(visited, node))
             ELSE iterative_dfs(
                     g, forwards,
                     rest \o <<<<node, TRUE>>>>
                          \o [i \in 1..Len(next) |-> <<next[i], FALSE>>],
                     visited)

\* A forwards plan that would list the target first.
forwards_plan_target_first(g, target) ==
    Reverse(iterative_dfs(g, TRUE, <<<<target, FALSE>>>>, <<>>))

\* graph.forwards_plan(target)
forwards_plan(g, target) ==
    iterative_dfs(g, TRUE, <<<<target, FALSE>>>>, <<>>)

\* A backwards plan that would list the target first.
backwards_plan_target_first(g, target) ==
    Reverse(iterative_dfs(g, FALSE, <<<<target, FALSE>>>>, <<>>))

\* graph.backwards_plan(target)
backwards_plan(g, target) ==
    iterative_dfs(g, FALSE, <<<<target, FALSE>>>>, <<>>)

\* Every set of concrete dependencies among the four migrations, no
\* squash, an empty ledger.
GraphStart ==
    /\ \E decls \in SUBSET ConcreteDeps :
          disk = DiskOf(KeyUniverse, decls, [k \in KeyUniverse |-> <<>>])
    /\ diskOrder = Ascending(KeyUniverse)
    /\ ledger = {}
    /\ options = [replace_migrations |-> TRUE, ignore_no_migrations |-> FALSE,
                  migrated_apps |-> Apps, unmigrated_apps |-> {}]
    /\ loader = NewLoader
    /\ lpc = "load"
    /\ viewAt = <<>>

InitGraph == GraphStart /\ EngineIdle /\ ServiceIdle

ForwardsPlan ==
    /\ lpc = "done"
    /\ lookup = NoLookup
    /\ \E target \in loader.graph.nodes :
          lookup' = [fn |-> "forwards_plan", target |-> target,
                     plan |-> forwards_plan(loader.graph, target)]
    /\ UNCHANGED <<loaderVars, engineVars, recorderVars, cmd>>

BackwardsPlan ==
    /\ lpc = "done"
    /\ lookup = NoLookup
    /\ \E target \in loader.graph.nodes :
          lookup' = [fn |-> "backwards_plan", target |-> target,
                     plan |-> backwards_plan(loader.graph, target)]
    /\ UNCHANGED <<loaderVars, engineVars, recorderVars, cmd>>

NextGraph ==
    \/ BuildLoad
    \/ BuildInternal
    \/ BuildExternal
    \/ BuildValidate
    \/ BuildAcyclic
    \/ ForwardsPlan
    \/ BackwardsPlan

SpecGraph == InitGraph /\ [][NextGraph]_vars

\* The keys from which key can be reached along the edges, with key.
Ancestors(g, key) ==
    Descendants({<<e[2], e[1]>> : e \in g.edges}, {key})

Position(q, x) == CHOOSE i \in 1..Len(q) : q[i] = x

EachOnce(q) == \A i, j \in 1..Len(q) : q[i] = q[j] => i = j

\* C19: in an acyclic graph forwards_plan(target) holds the target and
\* all its ancestors and nothing else, each once, every parent before each
\* of its children.
C19_ForwardsPlanAncestorsInOrder ==
    lookup.fn = "forwards_plan" =>
       /\ Range(lookup.plan) = Ancestors(loader.graph, lookup.target)
       /\ EachOnce(lookup.plan)
       /\ \A e \in loader.graph.edges :
             (e[1] \in Range(lookup.plan) /\ e[2] \in Range(lookup.plan)) =>
                Position(lookup.plan, e[1]) < Position(lookup.plan, e[2])

\* C19 witness: the plan of the bottom of a diamond has all four
\* migrations.
C19_Witness ==
    /\ lookup.fn = "forwards_plan"
    /\ Len(lookup.plan) = 4
    /\ Cardinality(Parents(loader.graph, lookup.target)) = 2
    /\ \E top \in loader.graph.nodes :
          \A p \in Parents(loader.graph, lookup.target) :
             <<top, p>> \in loader.graph.edges

\* C20: in an acyclic graph backwards_plan(target) holds the target and
\* all its descendants and nothing else, each once, every child before
\* each of its parents.
C20_BackwardsPlanDescendantsInOrder ==
    lookup.fn = "backwards_plan" =>
       /\ Range(lookup.plan)
             = Descendants(loader.graph.edges, {lookup.target})
       /\ EachOnce(lookup.plan)
       /\ \A e \in loader.graph.edges :
             (e[1] \in Range(lookup.plan) /\ e[2] \in Range(lookup.plan)) =>
                Position(lookup.plan, e[2]) < Position(lookup.plan, e[1])

\* C20 witness: the plan of the top of a diamond has all four migrations.
C20_Witness ==
    /\ lookup.fn = "backwards_plan"
    /\ Len(lookup.plan) = 4
    /\ Cardinality(Children(loader.graph, lookup.target)) = 2
    /\ \E bottom \in loader.graph.nodes :
          \A c \in Children(loader.graph, lookup.target) :
             <<c, bottom>> \in loader.graph.edges


(***************************************************************************)
(* The migrate command (core/management/commands/migrate.py, handle).      *)
(* SpecMigrate runs one invocation: the executor's loader builds the       *)
(* graph, then handle goes through its checks, the targets, the pruning,   *)
(* the plan and the migration itself.  MigrationExecutor is modelled by    *)
(* its planner and by the ledger rows its steps write.                     *)
(***************************************************************************)
InstalledApps == {"a", "b", "c"}
AppLabels == {"None", "a", "b", "c", "d"}
MigrationNames == {"None", "zero", "000", "0001", "0003"}

RECURSIVE Flatten(_)
Flatten(qs) == IF qs = <<>> THEN <<>> ELSE qs[1] \o Flatten(Tail(qs))

\* Keep the first step of every key.
RECURSIVE Dedupe(_, _)
Dedupe(steps, seen) ==
    IF steps = <<>> THEN <<>>
    ELSE IF steps[1][1] \in seen THEN Dedupe(Tail(steps), seen)
    ELSE <<steps[1]>> \o Dedupe(Tail(steps), seen \cup {steps[1][1]})

\* The steps one target asks for: (key, backwards).
StepsFor(g, applied, target) ==
    IF target[2] = "None"
    THEN LET roots == root_nodes(g, target[1])
             down == Flatten([i \in 1..Len(roots) |->
                                 backwards_plan(g, roots[i])])
             isApplied(k) == k \in applied
             todo == SelectSeq(down, isApplied)
         IN  [i \in 1..Len(todo) |-> <<todo[i], TRUE>>]
    ELSE IF target \in applied THEN <<>>
    ELSE LET up == forwards_plan(g, target)
             isUnapplied(k) == k \notin applied
             todo == SelectSeq(up, isUnapplied)
         IN  [i \in 1..Len(todo) |-> <<todo[i], FALSE>>]

\* executor.migration_plan(targets): a target that is no node of the graph
\* cannot be planned.
migration_plan(g, applied, targets) ==
    IF \E i \in 1..Len(targets) :
          targets[i][2] # "None" /\ targets[i] \notin g.nodes
    THEN [error |-> "NodeNotFoundError", plan |-> <<>>]
    ELSE [error |-> "",
          plan |-> Dedupe(Flatten([i \in 1..Len(targets) |->
                                      StepsFor(g, applied, targets[i])]),
                          {})]

NewCommand(app_label, migration_name, plan, check_unapplied, prune) ==
    [pc |-> "executor",
     app_label |-> app_label, migration_name |-> migration_name,
     plan |-> plan, check_unapplied |-> check_unapplied, prune |-> prune,
     run_syncdb |-> FALSE,
     targets |-> <<>>, targets_resolved |-> FALSE,
     target_app_labels_only |-> TRUE,
     migration_plan |-> <<>>, planned |-> FALSE,
     i |-> 0, executed |-> <<>>, pruned |-> <<>>,
     error |-> "", ledger_before |-> ledger]

Abort(error) == cmd' = [cmd EXCEPT !.pc = "aborted", !.error = error]

\* executor = MigrationExecutor(connection, ...): build_graph raised.
HandleBuildRaised ==
    /\ cmd.pc = "executor"
    /\ lpc = "failed"
    /\ Abort(loader.error)
    /\ UNCHANGED <<loaderVars, engineVars, lookup, recorderVars>>

\* executor.loader.check_consistent_history(connection)
HandleCheckHistory ==
    /\ cmd.pc = "executor"
    /\ lpc = "done"
    /\ IF InconsistentPairs(loader.graph, applied_migrations_of(ledger),
                            loader.replacements, disk) # {}
       THEN Abort("InconsistentMigrationHistory")
       ELSE cmd' = [cmd EXCEPT !.pc = "conflicts"]
    /\ UNCHANGED <<loaderVars, engineVars, lookup, recorderVars>>

\* A command that would not stop at conflicts.
HasConflictsNever(conflicts) == FALSE

\* if conflicts:
HasConflicts(conflicts) == DOMAIN conflicts # {}

\* conflicts = executor.loader.detect_conflicts(); if conflicts: raise
HandleDetectConflicts ==
    /\ cmd.pc = "conflicts"
    /\ IF HasConflicts(detect_conflicts(loader.graph))
       THEN Abort("CommandError: conflicting migrations")
       ELSE cmd' = [cmd EXCEPT !.pc = "targets"]
    /\ UNCHANGED <<loaderVars, engineVars, lookup, recorderVars>>

\* The target a migration name stands for.
NamedTarget(app_label, migration_name) ==
    LET found == get_migration_by_prefix(diskOrder, app_label, migration_name)
        target == found.migration
    IN  IF found.outcome = "AmbiguityError"
        THEN [error |-> "CommandError: more than one migration matches",
              target |-> <<>>]
        ELSE IF found.outcome = "KeyError"
        THEN [error |-> "CommandError: cannot find a migration matching",
              target |-> <<>>]
        ELSE IF /\ target \notin loader.graph.nodes
                /\ target \in Range(loader.replacements)
        THEN [error |-> "",
              target |-> disk[target].replaces[Len(disk[target].replaces)]]
        ELSE [error |-> "", target |-> target]

\* The validation of app_label and the working out of the targets.
HandleTargets ==
    /\ cmd.pc = "targets"
    /\ IF cmd.app_label # "None" /\ cmd.app_label \notin InstalledApps
       THEN Abort("CommandError: no installed app with that label")
       ELSE IF /\ cmd.app_label # "None"
               /\ cmd.run_syncdb
               /\ cmd.app_label \in options.migrated_apps
       THEN Abort("CommandError: cannot use run_syncdb")
       ELSE IF /\ cmd.app_label # "None"
               /\ ~cmd.run_syncdb
               /\ cmd.app_label \notin options.migrated_apps
       THEN Abort("CommandError: app does not have migrations")
       ELSE IF cmd.app_label # "None" /\ cmd.migration_name # "None"
       THEN IF cmd.migration_name = "zero"
            THEN cmd' = [cmd EXCEPT
                           !.targets = <<<<cmd.app_label, "None">>>>,
                           !.targets_resolved = TRUE,
                           !.target_app_labels_only = FALSE,
                           !.pc = "prune"]
            ELSE LET t == NamedTarget(cmd.app_label, cmd.migration_name)
                 IN  IF t.error # "" THEN Abort(t.error)
                     ELSE cmd' = [cmd EXCEPT
                                    !.targets = <<t.target>>,
                                    !.targets_resolved = TRUE,
                                    !.target_app_labels_only = FALSE,
                                    !.pc = "prune"]
       ELSE IF cmd.app_label # "None"
       THEN cmd' = [cmd EXCEPT
                      !.targets = leaf_nodes(loader.graph, cmd.app_label),
                      !.targets_resolved = TRUE,
                      !.pc = "prune"]
       ELSE cmd' = [cmd EXCEPT
                      !.targets = all_leaf_nodes(loader.graph),
                      !.targets_resolved = TRUE,
                      !.pc = "prune"]
    /\ UNCHANGED <<loaderVars, engineVars, lookup, recorderVars>>

\* A to_prune that would not take the migrations on disk out.
ToPruneWholeView == loader.applied_migrations

\* to_prune = set(loader.applied_migrations) - set(loader.disk_migrations)
ToPrune == loader.applied_migrations \ DOMAIN disk

\* The squash migrations one of whose replaced migrations is in to_prune.
SquashedWithDeletedReplaced ==
    LET touched(k) == \E i \in 1..Len(disk[k].replaces) :
                         disk[k].replaces[i] \in ToPrune
    IN  SelectSeq(loader.replacements, touched)

\* if options["prune"]: ...
HandlePrune ==
    /\ cmd.pc = "prune"
    /\ IF ~cmd.prune
       THEN /\ cmd' = [cmd EXCEPT !.pc = "plan"]
            /\ UNCHANGED ledger
       ELSE IF cmd.app_label = "None"
       THEN /\ Abort("CommandError: prune needs an app")
            /\ UNCHANGED ledger
       ELSE IF SquashedWithDeletedReplaced # <<>>
       THEN /\ cmd' = [cmd EXCEPT !.pc = "plan"]
            /\ UNCHANGED ledger
       ELSE LET to_prune == SortKeys({k \in ToPrune : k[1] = cmd.app_label})
            IN  /\ ledger' = ledger \ Range(to_prune)
                /\ cmd' = [cmd EXCEPT !.pc = "plan", !.pruned = to_prune]
    /\ UNCHANGED <<disk, diskOrder, options, loader, lpc, viewAt>>
    /\ UNCHANGED <<engineVars, lookup, recorderVars>>

\* plan = executor.migration_plan(targets) and the early returns of
\* --plan, --check and --prune.
HandlePlan ==
    /\ cmd.pc = "plan"
    /\ LET p == migration_plan(loader.graph, loader.applied_migrations,
                               cmd.targets)
       IN  IF p.error # "" THEN Abort(p.error)
           ELSE cmd' = [cmd EXCEPT
                          !.migration_plan = p.plan,
                          !.planned = TRUE,
                          !.i = 1,
                          !.pc =
                             IF cmd.plan
                             THEN IF p.plan # <<>> /\ cmd.check_unapplied
                                  THEN "exit" ELSE "returned"
                             ELSE IF cmd.check_unapplied
                             THEN IF p.plan # <<>> THEN "exit" ELSE "returned"
                             ELSE IF cmd.prune THEN "returned"
                             ELSE "migrate"]
    /\ UNCHANGED <<loaderVars, engineVars, lookup, recorderVars>>

\* executor.migrate(targets, plan=plan, ...), one step of the plan: the
\* migration is applied or unapplied and the ledger row written.
MigrateStep ==
    /\ cmd.pc = "migrate"
    /\ cmd.i <= Len(cmd.migration_plan)
    /\ LET step == cmd.migration_plan[cmd.i]
       IN  /\ ledger' = IF step[2] THEN ledger \ {step[1]}
                        ELSE ledger \cup {step[1]}
           /\ cmd' = [cmd EXCEPT !.executed = Append(@, step), !.i = @ + 1]
    /\ UNCHANGED <<disk, diskOrder, options, loader, lpc, viewAt>>
    /\ UNCHANGED <<engineVars, lookup, recorderVars>>

\* The plan is exhausted; the post-migrate work follows and handle returns.
HandleReturn ==
    /\ cmd.pc = "migrate"
    /\ cmd.i > Len(cmd.migration_plan)
    /\ cmd' = [cmd EXCEPT !.pc = "returned"]
    /\ UNCHANGED <<loaderVars, engineVars, lookup, recorderVars>>

\* The dependency sets of the command's runs: no dependency (every
\* migration a leaf), a stray leaf, a chain, a fork, and two with a
\* dependency from app "b".
Dep(child, parent) == [kind |-> "dependency", from |-> child, to |-> parent]

CommandDecls ==
    {{},
     {Dep(A2, A1)},
     {Dep(A2, A1), Dep(A3, A2)},
     {Dep(A2, A1), Dep(A3, A1)},
     {Dep(A2, A1), Dep(A3, A2), Dep(B1, A1)},
     {Dep(A2, A1), Dep(B1, A2)}}

CommandStart ==
    /\ \E off \in SUBSET {A1, B1}, decls \in CommandDecls,
          r3 \in ReplacesChoices(A3), rws \in SUBSET KeyUniverse :
          LET keys == KeyUniverse \ off
              replaces == [k \in keys |-> IF k = A3 THEN r3 ELSE <<>>]
          IN  /\ disk = DiskOf(keys, {d \in decls : d.from \in keys},
                               replaces)
              /\ diskOrder = Ascending(keys)
              /\ ledger = rws
    /\ options = [replace_migrations |-> TRUE, ignore_no_migrations |-> FALSE,
                  migrated_apps |-> Apps, unmigrated_apps |-> {"c"}]
    /\ loader = NewLoader
    /\ lpc = "load"
    /\ viewAt = <<>>
    /\ \E app_label \in AppLabels, migration_name \in MigrationNames,
          plan \in BOOLEAN, check_unapplied \in BOOLEAN, prune \in BOOLEAN :
          /\ app_label \notin Apps => migration_name = "None"
          /\ B1 \notin DOMAIN disk => prune /\ app_label \in Apps
          /\ cmd = NewCommand(app_label, migration_name, plan,
                              check_unapplied, prune)

InitMigrate ==
    /\ CommandStart
    /\ EngineIdle
    /\ lookup = NoLookup
    /\ RecorderIdle

NextMigrate ==
    \/ BuildLoad
    \/ BuildInternal
    \/ BuildExternal
    \/ BuildReplace
    \/ BuildValidate
    \/ BuildAcyclic
    \/ HandleBuildRaised
    \/ HandleCheckHistory
    \/ HandleDetectConflicts
    \/ HandleTargets
    \/ HandlePrune
    \/ HandlePlan
    \/ MigrateStep
    \/ HandleReturn

SpecMigrate == InitMigrate /\ [][NextMigrate]_vars


(***************************************************************************)
(* Properties of the migrate command (checked under SpecMigrate).          *)
(***************************************************************************)
\* The ledger the command started with is ahead of its dependencies.
HistoryInconsistent ==
    InconsistentPairs(loader.graph, applied_migrations_of(cmd.ledger_before),
                      loader.replacements, disk) # {}

\* Some app has more than one leaf in the built graph.
ConflictingApps ==
    {app \in Apps : Cardinality(LeafNames(app)) >= 2}

\* C18: if check_consistent_history raises or detect_conflicts finds a
\* conflict, the command is aborted before it works out targets or a plan:
\* the ledger stays as it was and no migration is run, whichever app the
\* command line names.
C18_StructuralErrorAbortsBeforePlanning ==
    (lpc = "done" /\ (HistoryInconsistent \/ ConflictingApps # {})) =>
       /\ cmd.pc \in {"executor", "conflicts", "aborted"}
       /\ cmd.pc = "aborted" =>
             cmd.error \in {"InconsistentMigrationHistory",
                            "CommandError: conflicting migrations"}
       /\ ~cmd.targets_resolved
       /\ ~cmd.planned
       /\ cmd.executed = <<>>
       /\ cmd.pruned = <<>>
       /\ ledger = cmd.ledger_before

\* C18 witness: the command named app "b" with --prune, app "a" alone has
\* two leaves, the history is consistent, and the command was aborted
\* for the conflict.
C18_Witness ==
    /\ cmd.pc = "aborted"
    /\ cmd.error = "CommandError: conflicting migrations"
    /\ cmd.app_label = "b"
    /\ cmd.prune
    /\ ConflictingApps = {"a"}
    /\ ~HistoryInconsistent
    /\ ledger # {}

(***************************************************************************)
(* Further properties of build_graph (checked under SpecLoader).           *)
(***************************************************************************)
\* The key s, declared by migration k, is a sentinel naming k's own app.
OwnSentinel(k, s) == s[2] \in Sentinels /\ s[1] = k[1]

\* The passes that add edges have run (or build_graph failed in them).
EdgesWired == lpc \in {"replace", "validate", "acyclic", "done", "failed"}

\* C21: a "__first__" or "__latest__" entry naming the declaring
\* migration's own app, in dependencies or in run_before, adds no edge to
\* the graph, and build_graph does not fail for a node that only such an
\* entry names.
C21_OwnSentinelIgnored ==
    EdgesWired =>
       /\ \A k \in DOMAIN disk :
             /\ \A s \in disk[k].dependencies :
                   OwnSentinel(k, s) => <<s, k>> \notin loader.graph.edges
             /\ \A s \in disk[k].run_before :
                   OwnSentinel(k, s) => <<k, s>> \notin loader.graph.edges
       /\ (lpc = "failed" /\ loader.error = "NodeNotFoundError") =>
             \E n \in MissingNodes(loader.graph) : n[2] \notin Sentinels

\* C21 case: a migration of app "a" lists ("a", "__latest__") in its
\* dependencies and nothing else is declared; build_graph has finished
\* its passes and raised NodeNotFoundError.
C21_Witness ==
    /\ lpc = "failed"
    /\ loader.error = "NodeNotFoundError"
    /\ \E k \in DOMAIN disk :
          /\ disk[k].dependencies = {<<k[1], "__latest__">>}
          /\ disk[k].run_before = {}
          /\ \A l \in DOMAIN disk \ {k} :
                disk[l].dependencies = {} /\ disk[l].run_before = {}
          /\ MissingNodes(loader.graph) = {<<k[1], "__latest__">>}

(***************************************************************************)
(* Migration.mutate_state, and the specification that calls it.            *)
(***************************************************************************)
\* for operation in self.operations: operation.state_forwards(...), the
\* content of the state after the first n operations have run on content s.
RECURSIVE RunStateForwards(_, _, _)
RunStateForwards(ops, n, s) ==
    IF n = 0 THEN s
    ELSE state_forwards(ops[n], n, RunStateForwards(ops, n - 1, s))

\* A mutate_state that would work on its argument whatever preserve says.
mutate_state_in_place(h, m, project_state, preserve, n) ==
    [heap |-> [h EXCEPT ![project_state] =
                  RunStateForwards(m.operations, n, @)],
     new_state |-> project_state]

\* mutate_state(project_state, preserve): new_state is project_state or,
\* with preserve, project_state.clone(); the operations' state_forwards run
\* on new_state in order.  n is the number of operations that have run:
\* all of them when the call returns new_state, fewer when state_forwards
\* of operation n + 1 raised.
mutate_state(h, m, project_state, preserve, n) ==
    LET h1 == IF preserve THEN Clone(h, project_state) ELSE h
        new_state == IF preserve THEN Len(h1) ELSE project_state
    IN  [heap |-> [h1 EXCEPT ![new_state] =
                      RunStateForwards(m.operations, n, @)],
         new_state |-> new_state]

\* The caller calls migration.mutate_state(state, preserve) and keeps what
\* it returns; an exception of state_forwards ends the call.
MutateState ==
    /\ pc = "idle"
    /\ CallerRuns
    /\ \E preserve \in BOOLEAN, n \in 0..Len(migration.operations) :
         LET out == mutate_state(heap, migration, callerState, preserve, n)
             returned == n = Len(migration.operations)
         IN  /\ heap' = out.heap
             /\ callerState' = IF returned THEN out.new_state
                               ELSE callerState
             /\ history' = Append(history,
                   [fn |-> "mutate_state", preserve |-> preserve,
                    arg |-> callerState, argValue |-> heap[callerState],
                    status |-> IF returned THEN "returned" ELSE "raised",
                    error |-> IF returned THEN "" ELSE "state_forwards",
                    ret |-> IF returned THEN out.new_state ELSE 0,
                    retValue |-> IF returned THEN out.heap[out.new_state]
                                 ELSE <<>>,
                    inputAfter |-> out.heap[callerState], op |-> n])
    /\ UNCHANGED <<loaderVars, serviceVars>>
    /\ UNCHANGED <<migration, editor, frame, pc, db, tx, calls, events>>

\* Migrations whose operations differ in whether they change the state
\* and in whether they are reversible; the schema editor is not used.
MutateStart ==
    /\ migration \in [atomic : {TRUE}, operations :
          UNION {[1..n -> {o \in OperationAttrs :
                             o.reduces_to_sql /\ o.atomic = "None"}] :
                 n \in 0..MaxOps}]
    /\ editor = [atomic_migration |-> FALSE, collect_sql |-> FALSE,
                 collected_sql |-> <<>>]
    /\ heap = << <<0>> >>
    /\ callerState = 1
    /\ frame = NoFrame
    /\ pc = "idle"
    /\ db = <<>>
    /\ tx = <<>>
    /\ calls = <<>>
    /\ events = <<>>
    /\ history = <<>>

InitMutate == MutateStart /\ LoaderIdle /\ ServiceIdle

NextMutate == MutateState

SpecMutate == InitMutate /\ [][NextMutate]_vars

\* The numbers of the operations that change the state, in declared order.
RECURSIVE Changing(_, _)
Changing(ops, n) ==
    IF n = 0 THEN <<>>
    ELSE IF ops[n].changes_state THEN Append(Changing(ops, n - 1), n)
    ELSE Changing(ops, n - 1)

\* C22: a mutate_state call that returns gives the input content with every
\* operation applied forward in declared order.  With preserve the result
\* is another object than the argument, the argument has its content of
\* before when the call returns, and keeps it when the result is mutated
\* in place later.  Without preserve the result is the argument itself,
\* which has the new content.
C22_MutateStateResult ==
    \A n \in 1..Len(history) :
       LET c == history[n]
       IN  (c.fn = "mutate_state" /\ c.status = "returned") =>
              /\ c.retValue = c.argValue
                     \o Changing(migration.operations,
                                 Len(migration.operations))
              /\ IF c.preserve
                 THEN /\ c.ret # c.arg
                      /\ c.inputAfter = c.argValue
                      /\ heap[c.arg] = c.argValue
                 ELSE /\ c.ret = c.arg
                      /\ c.inputAfter = c.retValue

\* C22 witness: two operations change the state; a preserving call
\* returned a copy, a second call then mutated that copy in place.
C22_Witness ==
    /\ Len(history) = 2
    /\ Len(migration.operations) = 2
    /\ \A k \in 1..2 : migration.operations[k].changes_state
    /\ history[1].fn = "mutate_state" /\ history[1].preserve
    /\ history[1].status = "returned"
    /\ history[2].fn = "mutate_state" /\ ~history[2].preserve
    /\ history[2].status = "returned"
    /\ history[2].arg = history[1].ret
    /\ history[2].retValue = <<0, 1, 2, 1, 2>>
    /\ heap[history[1].arg] = <<0>>

(***************************************************************************)
(* Snapshots handed to the physical calls (checked under SpecEngine).      *)
(***************************************************************************)
\* The content of the snapshot after the first i operations of the
\* migration have been applied to content s.
SnapshotAfter(s, i) == s \o Changing(migration.operations, i)

\* The position of physical call c among the physical calls of its call.
OrdinalOf(c) == Cardinality({d \in CallsOf(calls[c].call) : d <= c})

\* C23: in apply, not collecting SQL, the physical calls are made in
\* declared order, the call of operation i is given the snapshot after
\* operations 1..i-1 as the state before and the snapshot after operations
\* 1..i as the state after, and an apply that returns has made a call for
\* every operation and returns what mutate_state gives for the same input.
C23_ApplySnapshots ==
    ~editor.collect_sql =>
       /\ \A c \in 1..Len(calls) :
             calls[c].fn = "apply" =>
                /\ calls[c].op = OrdinalOf(c)
                /\ calls[c].from_state
                      = SnapshotAfter(InputThen(calls[c].call),
                                      calls[c].op - 1)
                /\ calls[c].to_state
                      = SnapshotAfter(InputThen(calls[c].call), calls[c].op)
       /\ \A n \in 1..Len(history) :
             (history[n].fn = "apply" /\ history[n].status = "returned") =>
                LET out == mutate_state(<<history[n].argValue>>, migration,
                                        1, TRUE, Len(migration.operations))
                IN  /\ history[n].retValue = out.heap[out.new_state]
                    /\ Cardinality(CallsOf(n)) = Len(migration.operations)

\* C23 witness: apply returned after two operations that both change the
\* state; the second physical call saw the first operation's change in its
\* state before and both changes in its state after.
C23_Witness ==
    /\ ~editor.collect_sql
    /\ Len(history) = 1
    /\ history[1].fn = "apply" /\ history[1].status = "returned"
    /\ history[1].retValue = <<0, 1, 2>>
    /\ Len(calls) = 2
    /\ calls[2].op = 2
    /\ calls[2].from_state = <<0, 1>>
    /\ calls[2].to_state = <<0, 1, 2>>

\* C24: in Phase 2 of unapply the physical calls are made in the reverse
\* of the declared order (every operation when SQL is not collected), and
\* the call of operation i is given the snapshot after operations 1..i as
\* the state to leave and the snapshot after operations 1..i-1 as the
\* state to reach, both replayed from the input snapshot: what Phase 1
\* recorded for one operation is not changed by the replay of later ones.
C24_UnapplySnapshots ==
    \A c \in 1..Len(calls) :
       calls[c].fn = "unapply" =>
          /\ \A d \in CallsOf(calls[c].call) :
                d < c => calls[d].op > calls[c].op
          /\ ~editor.collect_sql =>
                calls[c].op = Len(migration.operations) + 1 - OrdinalOf(c)
          /\ calls[c].from_state
                = SnapshotAfter(InputThen(calls[c].call), calls[c].op)
          /\ calls[c].to_state
                = SnapshotAfter(InputThen(calls[c].call), calls[c].op - 1)

\* C24 witness: unapply of two operations that both change the state made
\* its second physical call, for operation 1, after the one for
\* operation 2.
C24_Witness ==
    /\ ~editor.collect_sql
    /\ Len(calls) = 2
    /\ calls[1].fn = "unapply" /\ calls[1].op = 2
    /\ calls[1].from_state = <<0, 1, 2>> /\ calls[1].to_state = <<0, 1>>
    /\ calls[2].fn = "unapply" /\ calls[2].op = 1
    /\ calls[2].from_state = <<0, 1>> /\ calls[2].to_state = <<0>>

\* The positions of the events of the given kinds.
EventsOf(kinds) == {e \in 1..Len(events) : events[e] \in kinds}

\* C25: in apply and in unapply, an operation's physical call gets a scoped
\* transaction exactly when the editor runs no whole-migration transaction
\* and the operation's atomicStep is true.  A scoped transaction is begun
\* right before one physical call and ended right after it, so none
\* contains another or a second call, none is open when the next operation
\* starts, and none is open when the call returns or raises.
C25_ScopedTransactionPerAtomicStep ==
    /\ \A c \in 1..Len(calls) :
          /\ calls[c].scoped
                <=> (~editor.atomic_migration /\ AtomicStep(calls[c]))
          /\ (events[calls[c].at - 1] = "begin") <=> calls[c].scoped
          /\ calls[c].open
                = IF editor.atomic_migration \/ calls[c].scoped THEN 1 ELSE 0
    /\ \A e \in EventsOf({"begin"}) :
          /\ e + 1 <= Len(events) => events[e + 1] = "call"
          /\ e + 2 <= Len(events) => events[e + 2] \in {"commit", "rollback"}
    /\ \A e \in EventsOf({"commit", "rollback"}) :
          e > 2 /\ events[e - 1] = "call" /\ events[e - 2] = "begin"
    /\ pc \in {"apply_loop", "unapply_phase1", "unapply_phase2"} =>
          /\ Len(tx) = IF editor.atomic_migration THEN 1 ELSE 0
          /\ Cardinality(EventsOf({"begin"}))
                = Cardinality(EventsOf({"commit", "rollback"}))
    /\ pc = "idle" =>
          /\ tx = <<>>
          /\ Cardinality(EventsOf({"begin"}))
                = Cardinality(EventsOf({"commit", "rollback"}))

\* C25 witness: on an editor without a whole-migration transaction, an
\* unapply of two atomic steps returned: each physical call had a scoped
\* transaction of its own, committed before the next was begun.
C25_Witness ==
    /\ ~editor.atomic_migration
    /\ pc = "idle"
    /\ Len(history) = 1
    /\ history[1].fn = "unapply" /\ history[1].status = "returned"
    /\ events = <<"editor_enter", "begin", "call", "commit",
                  "begin", "call", "commit", "editor_exit">>
    /\ \A c \in 1..Len(calls) : AtomicStep(calls[c])

\* The edges the concrete same-app dependencies of all migrations make.
InternalConcreteEdges ==
    UNION {{<<d, k>> : d \in {x \in disk[k].dependencies :
                                x[1] = k[1] /\ x[2] \notin Sentinels}} :
           k \in DOMAIN disk}

\* The edges that join two apps.
CrossEdges(g) == {e \in g.edges : e[1][1] # e[2][1]}

\* C26: build_graph works in passes.  No edge is in the graph until every
\* migration on disk is a node; when the pass that resolves sentinels and
\* adds cross-app edges starts, every concrete same-app dependency of
\* every migration is an edge and no cross-app edge is; and a cross-app
\* edge is first added by that pass.
C26_PassesInOrder ==
    [][ /\ (loader'.graph.edges # {} /\ loader.graph.edges = {}) =>
              loader.graph.nodes = DOMAIN disk
        /\ lpc' = "external" =>
              /\ loader'.graph.nodes = DOMAIN disk
              /\ InternalConcreteEdges \subseteq loader'.graph.edges
              /\ CrossEdges(loader'.graph) = {}
        /\ (CrossEdges(loader'.graph) # {} /\ CrossEdges(loader.graph) = {})
              => lpc = "external"
      ]_vars

\* C26 witness: migration 0002 of app "a" depends on 0001 of its app and
\* the migration of app "b" on ("a", "__latest__"); the sentinel was
\* resolved to 0002, the first leaf once the internal edge is there.
C26_Witness ==
    /\ lpc = "done"
    /\ B1 \in DOMAIN disk
    /\ disk[B1].dependencies = {<<"a", "__latest__">>}
    /\ disk[A2].dependencies = {A1}
    /\ loader.graph.edges = {<<A1, A2>>, <<A2, B1>>}

\* What a run_before entry c of migration k stands for in graph g: the key
\* itself, or for a sentinel of another app that has migrations the first
\* root / leaf of that app; nothing when the entry is ignored.
RunBeforeTargets(g, k, c) ==
    IF c[2] \notin Sentinels THEN {c}
    ELSE IF c[1] = k[1] \/ c[1] \in options.unmigrated_apps THEN {}
    ELSE LET own == {n \in g.nodes : n[1] = c[1]}
             ends == IF c[2] = "__first__"
                     THEN {n \in own : ~\E e \in g.edges :
                                          e[2] = n /\ e[1][1] = c[1]}
                     ELSE {n \in own : ~\E e \in g.edges :
                                          e[1] = n /\ e[2][1] = c[1]}
         IN  {n \in ends : \A o \in ends : n = o \/ KeyLess(n, o)}

\* C27: once the passes of build_graph have wired the edges, a migration
\* that lists a key in run_before is a parent of that key (of the key the
\* entry resolves to), the place a dependency of that key on the migration
\* would give it; and the built graph has that edge.
C27_RunBeforeMirrorsDependency ==
    (lpc \in {"validate", "acyclic", "done"} /\ loader.replacements = <<>>) =>
       \A k \in DOMAIN disk : \A c \in disk[k].run_before :
          \A a \in RunBeforeTargets(loader.graph, k, c) :
             /\ <<k, a>> \in loader.graph.edges
             /\ loader.graph.edges
                   = add_dependency(loader.graph, a, k).edges
             /\ k \in Parents(loader.graph, a)

\* C27 witness: the migration of app "b" lists 0002 of app "a" in
\* run_before, 0002 declares no dependency, and in the built graph the
\* migration of "b" is the parent of 0002.
C27_Witness ==
    /\ lpc = "done"
    /\ B1 \in DOMAIN disk
    /\ disk[B1].run_before = {A2}
    /\ disk[A2].dependencies = {}
    /\ Parents(loader.graph, A2) = {B1}

\* Squash S has been processed, and folded: all of the keys it replaces,
\* or none of them, were in the applied view at that time.
WasFolded(S) ==
    /\ S \in DOMAIN viewAt
    /\ \/ Replaced(S) \subseteq viewAt[S]
       \/ Replaced(S) \cap viewAt[S] = {}

\* build_graph has reached validate_consistency.
AtOrPastValidation ==
    \/ lpc \in {"validate", "acyclic", "done"}
    \/ lpc = "failed" /\ loader.error # "ValueError"

\* validate_consistency ran when every squash had been folded or unfolded
\* (with replacing enabled), and ensure_not_cyclic ran when
\* validate_consistency had passed.
ChecksInOrder ==
    /\ (AtOrPastValidation /\ options.replace_migrations) =>
          /\ DOMAIN viewAt = Squashes
          /\ loader.r = Len(loader.replacements) + 1
    /\ (lpc \in {"acyclic", "done"}
          \/ (lpc = "failed" /\ loader.error = "CircularDependencyError")) =>
          MissingNodes(loader.graph) = {}

\* C28 as claimed: the checks run in order, and no key that a folded
\* squash replaces is a missing node when validate_consistency runs, so
\* build_graph does not raise NodeNotFoundError for it.
C28_Original ==
    /\ ChecksInOrder
    /\ AtOrPastValidation =>
          \A S \in Squashes :
             (options.replace_migrations /\ WasFolded(S)) =>
                Replaced(S) \cap MissingNodes(loader.graph) = {}

\* C28 amended: the checks run in order, and for a folded squash that
\* stands alone (no squash lists it in its replaces, it lists no squash in
\* its own) no key the squash replaces is a missing node when
\* validate_consistency runs and the squash that stands in for those keys
\* is a node, so build_graph does not raise NodeNotFoundError for them.
C28_ValidationAfterFolding ==
    /\ ChecksInOrder
    /\ AtOrPastValidation =>
          \A S \in Squashes :
             (options.replace_migrations /\ WasFolded(S) /\ StandsAlone(S))
                => /\ Replaced(S) \cap MissingNodes(loader.graph) = {}
                   /\ S \in loader.graph.nodes

\* C28 witness: 0001 of app "a" is gone from disk, a squash that replaces
\* it was folded, a migration still declares its dependency on 0001, and
\* build_graph returned with that migration depending on the squash.
C28_Witness ==
    /\ BuiltWithReplacement
    /\ A1 \notin DOMAIN disk
    /\ \E S \in Squashes, d \in DOMAIN disk :
          /\ A1 \in Replaced(S)
          /\ StandsAlone(S)
          /\ WasFolded(S)
          /\ A1 \in disk[d].dependencies
          /\ <<S, d>> \in loader.graph.edges
          /\ S \in loader.graph.nodes

(***************************************************************************)
(* Further properties of the migrate command (checked under SpecMigrate).  *)
(***************************************************************************)
\* The migrations on disk the command line names.
NamedOnDisk ==
    {k \in DOMAIN disk :
        k[1] = cmd.app_label /\ BeginsWith(k[2], cmd.migration_name)}

\* The command line names the one squash S, which build_graph left out of
\* the graph because some, not all, of the keys it replaces were applied,
\* and the command has worked out its targets.
NamedUnfoldedSquash(S) ==
    /\ cmd.pc \in {"prune", "plan", "migrate", "returned", "exit", "aborted"}
    /\ cmd.targets_resolved
    /\ cmd.migration_name \notin {"None", "zero"}
    /\ NamedOnDisk = {S}
    /\ S \in Squashes
    /\ S \in DOMAIN viewAt
    /\ ~WasFolded(S)
    /\ S \notin loader.graph.nodes

LastReplaced(S) == disk[S].replaces[Len(disk[S].replaces)]

\* C29: the target of such a command is the last key of the squash's
\* replaces list, and that key is a node of the built graph.
C29_SquashFallbackTargetIsNode ==
    \A S \in DOMAIN disk :
       NamedUnfoldedSquash(S) =>
          /\ cmd.targets = <<LastReplaced(S)>>
          /\ LastReplaced(S) \in loader.graph.nodes

\* C29 case: "migrate a 0003" where 0003 replaces 0002 and 0001, 0001 is
\* applied and gone from disk and 0002 is not applied: the target is
\* ("a", "0001"), no node of the graph, and the planner fails on it.
C29_Witness ==
    /\ NamedUnfoldedSquash(A3)
    /\ disk[A3].replaces = <<A2, A1>>
    /\ A1 \notin DOMAIN disk
    /\ cmd.targets = <<A1>>
    /\ A1 \notin loader.graph.nodes
    /\ cmd.pc = "aborted"
    /\ cmd.error = "NodeNotFoundError"

\* The command is a --prune run for an app and has got past its prune step.
PruneStepDone ==
    /\ cmd.prune
    /\ cmd.app_label # "None"
    /\ cmd.targets_resolved
    /\ cmd.pc \in {"plan", "returned", "exit", "aborted"}

\* Some squash on disk, of whatever app, lists a key that is in the
\* loader's applied view and not on disk.
PruneBlocked ==
    \E S \in DOMAIN disk :
       /\ disk[S].replaces # <<>>
       /\ \E x \in Replaced(S) :
             x \in loader.applied_migrations /\ x \notin DOMAIN disk

\* The ledger rows the run has deleted.
RowsDeleted == cmd.ledger_before \ ledger

\* C30: a --prune run for an app that reaches its prune step deletes no
\* row when a squash has an applied replaced key that is gone from disk,
\* and otherwise exactly the rows of the named app whose key is in the
\* loader's applied view and not on disk.  No --prune run deletes the row
\* of a migration on disk or of another app, adds a row, or applies or
\* unapplies a migration.
C30_PruneDeletesOrphanRowsOfApp ==
    cmd.prune =>
       /\ cmd.executed = <<>>
       /\ cmd.pc # "migrate"
       /\ ledger \subseteq cmd.ledger_before
       /\ \A k \in RowsDeleted :
             k \notin DOMAIN disk /\ k[1] = cmd.app_label
       /\ ~PruneStepDone => RowsDeleted = {}
       /\ PruneStepDone =>
             RowsDeleted =
                IF PruneBlocked THEN {}
                ELSE {k \in cmd.ledger_before :
                        /\ k \in loader.applied_migrations
                        /\ k \notin DOMAIN disk
                        /\ k[1] = cmd.app_label}

\* C30 witness: "migrate a --prune" with rows for 0001 of "a" and for the
\* migration of "b", both gone from disk, and a row for 0002 of "a", on
\* disk: the run returned having deleted the row of ("a", "0001") only.
C30_Witness ==
    /\ cmd.prune
    /\ cmd.app_label = "a"
    /\ cmd.pc = "returned"
    /\ DOMAIN disk = {A2, A3}
    /\ cmd.ledger_before = {A1, A2, B1}
    /\ ledger = {A2, B1}
    /\ cmd.pruned = <<A1>>

(***************************************************************************)
(* Folding and cycles (checked under SpecLoader).                          *)
(***************************************************************************)
\* build_graph is about to process squash S.
Processing(S) ==
    /\ lpc = "replace"
    /\ loader.r \in 1..Len(loader.replacements)
    /\ S = loader.replacements[loader.r]

\* All of the keys S replaces are in the applied view, or none of them.
FoldsNow(S) ==
    \/ Replaced(S) \subseteq loader.applied_migrations
    \/ Replaced(S) \cap loader.applied_migrations = {}

\* The keys outside the set Q that depend on a key of Q and that a key of
\* Q depends on, along the edges of g.
Between(g, Q) ==
    {n \in Descendants(g.edges, Q) \ Q :
        Descendants(g.edges, {n}) \cap Q # {}}

\* Squash S and the keys it replaces are one block of g: no other key
\* lies on a dependency path between two of them, and no edge joins S to
\* a key it replaces.
OneBlock(g, S) ==
    /\ Between(g, Replaced(S) \cup {S}) = {}
    /\ ~\E e \in g.edges :
          \/ e[1] = S /\ e[2] \in Replaced(S)
          \/ e[2] = S /\ e[1] \in Replaced(S)

\* C31 as claimed: folding a squash into an acyclic graph leaves the graph
\* acyclic.
C31_Original ==
    [][ \A S \in Squashes :
           (Processing(S) /\ FoldsNow(S) /\ ~HasCycle(loader.graph)) =>
              ~HasCycle(loader'.graph)
      ]_vars

\* C31 amended: folding a squash into an acyclic graph removes the keys it
\* replaces and leaves the graph acyclic, when no other migration lies on
\* a dependency path between two keys of the squash and the keys it
\* replaces and the squash neither depends on a key it replaces nor is
\* depended on by one.
C31_FoldKeepsAcyclic ==
    [][ \A S \in Squashes :
           (Processing(S) /\ FoldsNow(S) /\ ~HasCycle(loader.graph)
              /\ OneBlock(loader.graph, S)) =>
              /\ Replaced(S) \cap loader'.graph.nodes = {}
              /\ ~HasCycle(loader'.graph)
      ]_vars

\* C31 witness: a squash that replaces 0001 and 0002 of app "a" was
\* folded; the migration of app "b" declares its dependency on 0002 and
\* depends on the squash in the graph build_graph returned.
C31_Witness ==
    /\ BuiltWithReplacement
    /\ B1 \in DOMAIN disk
    /\ disk[B1].dependencies = {A2}
    /\ disk[A3].replaces = <<A1, A2>>
    /\ WasFolded(A3)
    /\ <<A3, B1>> \in loader.graph.edges
    /\ ~HasCycle(loader.graph)

\* C31 counter-case reached: the squash replaces 0001 and 0002, the
\* migration of app "b" depends on 0001 and 0002 depends on it, and
\* build_graph raised CircularDependencyError.
C31_FoldMadeCycle ==
    /\ lpc = "failed"
    /\ loader.error = "CircularDependencyError"
    /\ B1 \in DOMAIN disk
    /\ disk[A3].replaces = <<A1, A2>>
    /\ disk[B1].dependencies = {A1}
    /\ disk[A2].dependencies = {B1}

(***************************************************************************)
(* The order of the replacements: build_graph over two squash migrations   *)
(* of app "a", 0003 and 0004, iterated in either order.                    *)
(***************************************************************************)
A4 == <<"a", "0004">>
OrderKeys == {A1, A2, A3, A4, B1}

\* The declarations of the family: 0002 depends on 0001, and dependencies
\* between the migration of app "b" and a migration of app "a".
OrderDeps ==
    {d \in [kind : {"dependency"}, from : OrderKeys, to : OrderKeys] :
        \/ d.from = A2 /\ d.to = A1
        \/ d.from = B1 /\ d.to # B1
        \/ d.to = B1 /\ d.from # B1}

OrderStart ==
    /\ \E decls \in SUBSET OrderDeps,
          r3 \in DistinctSeqs({A1, A2, A4}, MaxReplaces),
          r4 \in DistinctSeqs({A1, A2, A3}, MaxReplaces),
          rws \in SUBSET {A1, A2, A3} :
          LET replaces == [k \in OrderKeys |-> IF k = A3 THEN r3
                                               ELSE IF k = A4 THEN r4
                                               ELSE <<>>]
          IN  /\ Cardinality(decls) <= MaxDeps
              /\ r3 # <<>> /\ r4 # <<>>
              /\ disk = DiskOf(OrderKeys, decls, replaces)
              /\ ledger = rws
    /\ diskOrder \in {Ascending(OrderKeys), Descending(OrderKeys)}
    /\ options = [replace_migrations |-> TRUE,
                  ignore_no_migrations |-> FALSE,
                  migrated_apps |-> Apps, unmigrated_apps |-> {}]
    /\ loader = NewLoader
    /\ lpc = "load"
    /\ viewAt = <<>>

InitOrder == OrderStart /\ EngineIdle /\ ServiceIdle

SpecOrder == InitOrder /\ [][NextLoader]_vars

\* The loop over self.replacements.items(), run from entry i on over the
\* replacement keys in the order repl: the graph and the applied view it
\* leaves.
\* A loop that would stop after its first entry.
ReplaceLoopFirstEntryOnly(g, view, repl, i) ==
    IF i > Len(repl) THEN [graph |-> g, applied_migrations |-> view]
    ELSE LET key == repl[i]
             replaces == disk[key].replaces
             statuses == applied_statuses(view, replaces)
         IN  [graph |-> IF CanUse(statuses)
                        THEN remove_replaced_nodes(g, key, replaces)
                        ELSE remove_replacement_node(g, key, replaces),
              applied_migrations |-> MarkApplied(view, key, statuses)]

RECURSIVE ReplaceLoop(_, _, _, _)
ReplaceLoop(g, view, repl, i) ==
    IF i > Len(repl) THEN [graph |-> g, applied_migrations |-> view]
    ELSE LET key == repl[i]
             replaces == disk[key].replaces
             statuses == applied_statuses(view, replaces)
         IN  ReplaceLoop(
                IF CanUse(statuses)
                THEN remove_replaced_nodes(g, key, replaces)
                ELSE remove_replacement_node(g, key, replaces),
                MarkApplied(view, key, statuses), repl, i + 1)

\* The graph of the authored migrations: what the three passes leave.
AuthoredGraph ==
    ExternalPass(InternalPass(NodesPass(EmptyGraph, 1), 1), 1).graph

\* Every order the replacement entries can be processed in.
ProcessingOrders ==
    {q \in [1..Len(loader.replacements) -> Squashes] : Range(q) = Squashes}

\* What build_graph would have left had it processed the entries in the
\* order q.
BuiltIn(q) ==
    ReplaceLoop(AuthoredGraph, applied_migrations_of(ledger), q, 1)

\* What it did leave.
Built == [graph |-> loader.graph,
          applied_migrations |-> loader.applied_migrations]

\* The replacement entries stand apart: no squash lists a squash in its
\* replaces, and no key is replaced by two squashes.
SquashesApart == \A S \in Squashes : OriginalsOwn(S)

\* C32 as claimed: the graph and the applied view build_graph leaves are
\* those of every processing order of the replacement entries.
C32_Original ==
    (AtOrPastValidation /\ options.replace_migrations) =>
       \A q \in ProcessingOrders : BuiltIn(q) = Built

\* C32 amended: the same, when no squash lists another squash in its
\* replaces and no key is replaced by two squashes.
C32_OrderOfSquashesIrrelevant ==
    (AtOrPastValidation /\ options.replace_migrations /\ SquashesApart) =>
       \A q \in ProcessingOrders : BuiltIn(q) = Built

\* C32 witness: 0003 replaces 0001 and 0004 replaces 0002, 0002 depends
\* on 0001 and only 0001 is applied; build_graph has processed both and
\* left 0003 applied and a parent of 0004.
C32_Witness ==
    /\ lpc = "done"
    /\ A4 \in DOMAIN disk
    /\ disk[A3].replaces = <<A1>>
    /\ disk[A4].replaces = <<A2>>
    /\ ledger = {A1}
    /\ loader.applied_migrations = {A1, A3}
    /\ <<A3, A4>> \in loader.graph.edges
    /\ loader.graph.nodes = {A3, A4, B1}

(***************************************************************************)
(* The order of the third pass: build_graph over migrations that declare   *)
(* sentinel dependencies and run_before entries, visited in either order.  *)
(***************************************************************************)
VisitStart ==
    /\ \E decls \in UNION {[1..n -> ConcreteDeps \cup SpecialDecls] :
                              n \in 0..MaxDeps} :
          disk = DiskOf(KeyUniverse, Range(decls),
                        [k \in KeyUniverse |-> <<>>])
    /\ diskOrder \in {Ascending(KeyUniverse), Descending(KeyUniverse)}
    /\ ledger = {}
    /\ options = [replace_migrations |-> TRUE,
                  ignore_no_migrations |-> FALSE,
                  migrated_apps |-> Apps, unmigrated_apps |-> {}]
    /\ loader = NewLoader
    /\ lpc = "load"
    /\ viewAt = <<>>

InitVisit == VisitStart /\ EngineIdle /\ ServiceIdle

NextVisit ==
    \/ BuildLoad
    \/ BuildInternal
    \/ BuildExternal
    \/ BuildValidate
    \/ BuildAcyclic

SpecVisit == InitVisit /\ [][NextVisit]_vars

\* The third pass over the migrations in the order q, from position i on.
RECURSIVE ExternalPassOver(_, _, _)
ExternalPassOver(q, g, i) ==
    IF i > Len(q) THEN [graph |-> g, raised |-> FALSE]
    ELSE LET one == add_external_dependencies(g, q[i], disk[q[i]], options)
         IN  IF one.raised THEN one ELSE ExternalPassOver(q, one.graph, i + 1)

\* Every order the migrations on disk can be visited in.
VisitingOrders ==
    {q \in [1..Cardinality(DOMAIN disk) -> DOMAIN disk] :
        Range(q) = DOMAIN disk}

\* The third pass is over and raised nothing.
ThirdPassDone ==
    lpc \in {"replace", "validate", "acyclic", "done"}
       \/ (lpc = "failed" /\ loader.error # "ValueError")

\* C33: the edges build_graph has after its third pass are those of every
\* visiting order of the migrations, so the node a "__first__" or
\* "__latest__" sentinel resolves to does not depend on that order.
C33_SentinelResolutionOrderFree ==
    (ThirdPassDone /\ loader.replacements = <<>>) =>
       \A q \in VisitingOrders :
          ExternalPassOver(q, InternalPass(NodesPass(EmptyGraph, 1), 1), 1)
             = [graph |-> loader.graph, raised |-> FALSE]

\* C33 failing case reached: 0002 of app "a" declares run_before 0001 of
\* its app, the migration of app "b" depends on ("a", "__first__") and was
\* visited first: it depends on 0001, which is no root of app "a" in the
\* graph build_graph returned.
C33_Witness ==
    /\ lpc = "done"
    /\ disk[A2].run_before = {A1}
    /\ disk[B1].dependencies = {<<"a", "__first__">>}
    /\ loader.graph.edges = {<<A2, A1>>, <<A1, B1>>}
    /\ A1 \notin Range(root_nodes(loader.graph, "a"))

\* No migration lists a migration of its own app in run_before.
NoOwnRunBefore ==
    \A k \in DOMAIN disk : \A c \in disk[k].run_before : c[1] # k[1]

\* Where C33 does hold: the third pass adds no same-app edge.
C33_OrderFreeWithoutOwnRunBefore ==
    NoOwnRunBefore => C33_SentinelResolutionOrderFree

(***************************************************************************)
(* The caller's snapshot (checked under SpecEngine).                       *)
(***************************************************************************)
\* C34: unapply never changes the state object it is given.  While it
\* runs, the object holds what it held at the call, every state_forwards
\* of Phase 1 was run on another object, and no recorded pair of states is
\* that object; when it ends, by return or by exception, the object holds
\* what it held at the call, and what it returns is that object.
C34_UnapplyLeavesInputAlone ==
    /\ (frame.fn = "unapply") =>
          /\ heap[frame.project_state] = frame.argValue
          /\ frame.to_run # <<>> => frame.new_state # frame.project_state
          /\ \A r \in 1..Len(frame.to_run) :
                /\ frame.to_run[r].from_state # frame.project_state
                /\ frame.to_run[r].to_state # frame.project_state
    /\ \A n \in 1..Len(history) :
          history[n].fn = "unapply" =>
             /\ history[n].inputAfter = history[n].argValue
             /\ history[n].status = "returned" =>
                   /\ history[n].ret = history[n].arg
                   /\ history[n].retValue = history[n].argValue

\* C34 witness: unapply of two operations that both change the state has
\* made its physical calls and returned.
C34_Witness ==
    /\ Len(migration.operations) = 2
    /\ \A k \in 1..2 : migration.operations[k].changes_state
    /\ Len(history) = 1
    /\ history[1].fn = "unapply"
    /\ history[1].status = "returned"
    /\ Len(calls) = 2
    /\ calls[1].from_state # history[1].retValue

(***************************************************************************)
(* The snapshot after a failed physical call (checked under SpecEngine).   *)
(***************************************************************************)
\* The numbers of the operations among 1..n whose state_forwards apply
\* runs and that change the state, in declared order: collecting SQL,
\* apply passes over an operation that does not reduce to SQL.
RECURSIVE ForwardedByApply(_, _)
ForwardedByApply(ops, n) ==
    IF n = 0 THEN <<>>
    ELSE IF /\ ops[n].changes_state
            /\ editor.collect_sql => ops[n].reduces_to_sql
    THEN Append(ForwardedByApply(ops, n - 1), n)
    ELSE ForwardedByApply(ops, n - 1)

\* The durable effects when call n, running or finished, was made.
DbThen(n) ==
    IF n <= Len(history) THEN history[n].dbBefore ELSE frame.dbBefore

\* C35: when the physical call of operation k fails during apply, the
\* state object the caller passed holds its content of the call with the
\* state_forwards of the operations up to and including k applied; apply
\* raises and leaves it so, the caller still holds that object, and the
\* call has left no complete effect of operation k in the storage.
C35_FailedApplyLeavesStateAhead ==
    \A c \in 1..Len(calls) :
       (calls[c].fn = "apply" /\ ~calls[c].ok) =>
          LET n == calls[c].call
              k == calls[c].op
          IN  /\ InputNow(n) = InputThen(n)
                                  \o ForwardedByApply(migration.operations, k)
              /\ calls[c].to_state = InputNow(n)
              /\ Effect("apply", k, TRUE) \notin Range(AddedBy(DbThen(n), db))
              /\ n <= Len(history) =>
                    /\ history[n].status = "raised"
                    /\ history[n].op = k
                    /\ heap[callerState] = history[n].inputAfter
                    /\ history[n].dbAfter = db

\* C35 witness: apply of two state-changing operations, the second
\* physical call failed after the first had become durable; apply raised
\* and the caller's state holds both operations.
C35_Witness ==
    /\ ~editor.collect_sql
    /\ Len(history) = 1
    /\ history[1].fn = "apply"
    /\ history[1].error = "database"
    /\ history[1].op = 2
    /\ history[1].argValue = <<0>>
    /\ heap[callerState] = <<0, 1, 2>>
    /\ history[1].dbAfter = <<Effect("apply", 1, TRUE)>>
    /\ Len(calls) = 2 /\ ~calls[2].ok

(***************************************************************************)
(* Collecting SQL (checked under SpecEngine).                              *)
(***************************************************************************)
\* The operations apply and unapply pass over when collecting SQL.
Skipped ==
    {j \in 1..Len(migration.operations) :
        editor.collect_sql /\ ~migration.operations[j].reduces_to_sql}

\* C36: collecting SQL, apply makes no physical call and runs no
\* state_forwards for an operation that does not reduce to SQL: the states
\* it gives to the physical calls of the other operations and the state it
\* returns hold the changes of the operations it did not pass over, and
\* the returned state is what mutate_state gives for the same input
\* exactly when no operation passed over changes the state.  unapply
\* makes no physical call for such an operation either, but the states it
\* gives to its physical calls hold the changes of every operation.
C36_CollectSqlSkipsWholeOperationInApplyOnly ==
    editor.collect_sql =>
       /\ \A c \in 1..Len(calls) :
             /\ calls[c].op \notin Skipped
             /\ calls[c].fn = "apply" =>
                   /\ calls[c].from_state = InputThen(calls[c].call) \o
                         ForwardedByApply(migration.operations,
                                          calls[c].op - 1)
                   /\ calls[c].to_state = InputThen(calls[c].call) \o
                         ForwardedByApply(migration.operations, calls[c].op)
             /\ calls[c].fn = "unapply" =>
                   /\ calls[c].from_state
                         = SnapshotAfter(InputThen(calls[c].call),
                                         calls[c].op)
                   /\ calls[c].to_state
                         = SnapshotAfter(InputThen(calls[c].call),
                                         calls[c].op - 1)
       /\ \A n \in 1..Len(history) :
             history[n].status = "returned" =>
                /\ {calls[c].op : c \in CallsOf(n)}
                      = (1..Len(migration.operations)) \ Skipped
                /\ history[n].fn = "apply" =>
                      LET out == mutate_state(<<history[n].argValue>>,
                                     migration, 1, TRUE,
                                     Len(migration.operations))
                      IN  /\ history[n].retValue = history[n].argValue \o
                                ForwardedByApply(migration.operations,
                                                 Len(migration.operations))
                          /\ (history[n].retValue = out.heap[out.new_state])
                                <=> ~\E j \in Skipped :
                                       migration.operations[j].changes_state

\* C36 witness: collecting SQL over two state-changing operations of which
\* the first does not reduce to SQL, apply returned a state without the
\* first operation's change, and unapply of that state then gave its one
\* physical call, for the second operation, states with both changes.
C36_Witness ==
    /\ editor.collect_sql
    /\ Len(migration.operations) = 2
    /\ \A k \in 1..2 : migration.operations[k].changes_state
    /\ Skipped = {1}
    /\ Len(history) = 2
    /\ history[1].fn = "apply" /\ history[1].retValue = <<0, 2>>
    /\ history[2].fn = "unapply" /\ history[2].status = "returned"
    /\ Len(calls) = 2
    /\ calls[1].from_state = <<0>> /\ calls[1].to_state = <<0, 2>>
    /\ calls[2].op = 2
    /\ calls[2].from_state = <<0, 2, 1, 2>>
    /\ calls[2].to_state = <<0, 2, 1>>

(***************************************************************************)
(* --plan and --check (checked under SpecMigrate).                         *)
(***************************************************************************)
\* The command has ended: it returned, exited or was aborted.
CommandEnded == cmd.pc \in {"returned", "exit", "aborted"}

\* C37: a command run with --plan or with --check runs no migration step
\* and leaves the ledger as it found it, whatever else it was given.
C37_PlanAndCheckChangeNothing ==
    (cmd.pc # "unused" /\ (cmd.plan \/ cmd.check_unapplied)) =>
       /\ cmd.executed = <<>>
       /\ ledger = cmd.ledger_before

\* C37 failing case reached: migrate a --plan --prune has returned, and
\* the ledger row of a migration of app "a" that is not on disk is gone.
C37_Witness ==
    /\ CommandEnded
    /\ cmd.plan /\ cmd.prune /\ ~cmd.check_unapplied
    /\ cmd.app_label = "a"
    /\ cmd.pc = "returned"
    /\ cmd.planned
    /\ A1 \notin DOMAIN disk
    /\ A1 \in cmd.ledger_before
    /\ A1 \notin ledger
    /\ cmd.pruned = <<A1>>

\* Where C37 does hold: no migration step is run with --plan or --check,
\* and without --prune the ledger is left as it was.
C37_PlanAndCheckWithoutPrune ==
    (cmd.pc # "unused" /\ (cmd.plan \/ cmd.check_unapplied)) =>
       /\ cmd.executed = <<>>
       /\ ~cmd.prune => ledger = cmd.ledger_before

(***************************************************************************)
(* The targets of the plan (checked under SpecMigrate).                    *)
(***************************************************************************)
\* The command has called executor.migration_plan(targets).
HandedToPlanner ==
    /\ cmd.targets_resolved
    /\ \/ cmd.pc \in {"plan", "migrate", "returned", "exit"}
       \/ cmd.pc = "aborted" /\ cmd.error = "NodeNotFoundError"

\* C38: every target the command hands to the planner is (app, None), for
\* the name "zero", or a node of the built graph.
C38_TargetsAreZeroOrNodes ==
    HandedToPlanner =>
       \A t \in 1..Len(cmd.targets) :
          \/ /\ cmd.migration_name = "zero"
             /\ cmd.targets[t] = <<cmd.app_label, "None">>
          \/ cmd.targets[t] \in loader.graph.nodes

\* C38 failing case reached: "migrate a 0001" where 0003 replaces 0001 and
\* 0002, all three are on disk and the squash was folded: the target is
\* ("a", "0001"), no node of the graph, and the planner fails on it.
C38_Witness ==
    /\ HandedToPlanner
    /\ cmd.app_label = "a"
    /\ cmd.migration_name = "0001"
    /\ disk[A3].replaces = <<A1, A2>>
    /\ A1 \in DOMAIN disk
    /\ WasFolded(A3)
    /\ A3 \in loader.graph.nodes
    /\ cmd.targets = <<A1>>
    /\ A1 \notin loader.graph.nodes
    /\ cmd.pc = "aborted"
    /\ cmd.error = "NodeNotFoundError"

\* Where C38 does hold: a target that is no node is a migration on disk
\* that a squash replaces, named on the command line, or the last replaced
\* key of a squash named on the command line that was left out of the
\* graph.
C38_TargetsOtherwiseNodes ==
    HandedToPlanner =>
       \A t \in 1..Len(cmd.targets) :
          \/ /\ cmd.migration_name = "zero"
             /\ cmd.targets[t] = <<cmd.app_label, "None">>
          \/ cmd.targets[t] \in loader.graph.nodes
          \/ /\ NamedOnDisk = {cmd.targets[t]}
             /\ \E S \in Squashes : cmd.targets[t] \in Replaced(S)
          \/ \E S \in Squashes :
                /\ NamedOnDisk = {S}
                /\ S \notin loader.graph.nodes
                /\ cmd.targets[t] = LastReplaced(S)

====
